---- MODULE Spec2Model ----
(***************************************************************************)
(* Client outreach campaign: the orchestrator                              *)
(* (client_outreach_orchestrator.py), its per-client approval workers and  *)
(* the approval script each worker runs as a subprocess                    *)
(* (scripts/discord_api_message_send.py), which in turn runs the email     *)
(* script (scripts/send_email.py) once a human approved.  The monitor      *)
(* (scripts/discord_monitor.py), whose queue the orchestrator's threads    *)
(* fill and whose bot thread empties it, has a specification of its own,   *)
(* MonitorSpec.                                                            *)
(***************************************************************************)
EXTENDS Integers, Sequences, FiniteSets, TLC

\* Largest number of data rows of a sheet in the model.
MaxRows == 3
\* Largest number of columns, and of data rows, of the spreadsheet that
\* find_client_row searches.
MaxCols == 4
MaxDataRows == 2
\* Largest number of tracking requests the tracking server receives.
MaxRequests == 4
MaxPid == 3
\* Largest client list the fetch script returns in the model.
MaxClients == 2
\* Longest fetch-script output, in tokens (log lines, markers, documents).
MaxOutLen == 3
\* Most updates handed to the monitor in one run, the summary included.
MaxUpdates == 3

Clients == 1..MaxClients

VARIABLES
    mainPc,          \* position of main(): start, draining, locked, exited
    exitCode,        \* status passed to sys.exit, NoExit while running
    clients,         \* client_data_json["data"]: the sequence of client emails
    shared_results,  \* the shared results dictionary of main()
    results_lock,    \* holder of results_lock: Free, MainThread or a client
    drained,         \* futures main() has taken from as_completed
    catching,        \* the future whose exception main() is recording
    workerPc,        \* position of each process_client_approval thread
    discord_result,  \* run_script's result in each worker
    status,          \* client_result["status"] of each worker
    scriptPc,        \* position of each approval script process
    approval_result, \* approval_result of each approval script
    reaction,        \* the reaction wait_for returned in each approval script
    embed,           \* what each posted approval message shows
    sendPc,          \* each client's send_email.py process
    process,         \* stdout and return code of each approval script
    discarded,       \* whether check_reaction turned an event down, per script
    final_results,   \* the report main() prints
    google_drive_result, \* run_script's result for the fetch script
    client_data_json,    \* what main() extracted from the fetch output
    last_status,     \* title of main()'s latest send_status call
    MONITORING_ENABLED, \* whether scripts.discord_monitor could be imported
    sink_raised,     \* whether a send_client_status call raised in each worker
    monitorPc,       \* the monitor's callers: off, running, summarised, stopped
    botPc,           \* position of the monitor's bot thread
    is_connected,    \* monitor.is_connected
    channel,         \* monitor.channel: "None" or the channel found
    message_queue,   \* monitor.message_queue: the updates waiting to be sent
    lock,            \* holder of monitor.lock: Unlocked or BotThread
    cursor,          \* position of process_message_queue's for loop
    queued,          \* every update handed to queue_message, in order
    buffered,        \* the updates queued while is_connected was still false
    sends,           \* the flush's channel.send calls, in order, with outcome
    client_updates,  \* the statuses handed to send_client_status, per client
    send_attempts,   \* how many email send attempts were started, per client
    missed,          \* whether a reaction came before wait_for listened, per script
    df,              \* get_file_google_drive.py: the sheet read by pd.read_excel
    response,        \* get_file_google_drive.py: the response object it prints
    values,          \* google_sheets_updater.py: the sheet's rows of cells
    client_email,    \* google_sheets_updater.py: the email looked for
    client_row,      \* google_sheets_updater.py: what find_client_row returned
    email_tracking,  \* email_tracker.py: the email_tracking table, by tracking_id
    requested,       \* email_tracker.py: the tracking requests received, per id
    sendStep,        \* send_email.py: position of one send_email call
    sent_tracking_id, \* send_email.py: the call's tracking_id, "None" or an id
    send_result,     \* send_email.py: the dict the call returned
    pid_file,        \* tracking_manager.py: the pid in PID_FILE, or NoFile
    pid_source,      \* how the start that wrote PID_FILE ended
    processes,       \* the operating system: what runs under each pid
    command          \* tracking_manager.py: the last command and its outcome

monitorVars == <<monitorPc, botPc, is_connected, channel, message_queue, lock, cursor,
                 queued, buffered, sends>>
sinkVars == <<MONITORING_ENABLED, sink_raised, monitorVars>>
campaignVars == <<mainPc, exitCode, clients, shared_results, results_lock, drained,
                  catching, workerPc, discord_result, status, scriptPc,
                  approval_result, reaction, embed, sendPc, process, discarded,
                  final_results, google_drive_result, client_data_json, last_status>>
logVars == <<client_updates, send_attempts, missed>>
sourceVars == <<df, response>>
sheetVars == <<values, client_email, client_row>>
trackerVars == <<email_tracking, requested>>
senderVars == <<sendStep, sent_tracking_id, send_result>>
managerVars == <<pid_file, pid_source, processes, command>>
toolVars == <<sourceVars, sheetVars, trackerVars, senderVars, managerVars>>
vars == <<campaignVars, sinkVars, logVars, toolVars>>

fetchVars == <<google_drive_result, client_data_json, clients>>
mainVars == <<mainPc, exitCode, fetchVars, shared_results, results_lock,
              drained, catching, final_results, last_status>>
workerVars == <<workerPc, discord_result, status>>
scriptVars == <<scriptPc, approval_result, reaction, embed, sendPc, process,
                discarded>>

NoExit == -1
\* sys.exit statuses of main().
EXIT_OK == 0
EXIT_FAILURE == 1
\* sys.exit status of the KeyboardInterrupt handler (line 370).
EXIT_INTERRUPT == 130
Free == 0
MainThread == MaxClients + 1
NoClient == 0
\* monitor.lock: not held, or held by process_message_queue.
Unlocked == "free"
BotThread == "bot"
NoReport == [reported |-> FALSE, total_clients |-> 0, processed |-> 0,
             approved |-> 0, rejected |-> 0, errors |-> 0, client_results |-> <<>>]

(***************************************************************************)
(* Script output.  stdout is a sequence of tokens: a log line, one of the  *)
(* four marker lines, a JSON document, or text json.loads rejects.         *)
(***************************************************************************)
NoneDoc == [kind |-> "None", n |-> 0, approved |-> FALSE, error |-> "None"]
ClientsDoc(k) == [kind |-> "clients", n |-> k, approved |-> FALSE, error |-> "None"]
ApprovalDoc(r) == [kind |-> "approval", n |-> 0, approved |-> r.approved, error |-> r.error]

Tok(t, d) == [t |-> t, doc |-> d]
LogLine == Tok("LOG", NoneDoc)
JsonStart == Tok("JSON_START", NoneDoc)
JsonEnd == Tok("JSON_END", NoneDoc)
ApprovalStart == Tok("APPROVAL_START", NoneDoc)
ApprovalEnd == Tok("APPROVAL_END", NoneDoc)
Garbage == Tok("GARBAGE", NoneDoc)
Json(d) == Tok("JSON", d)

\* str.find: the first index of the marker, 0 when absent (Python's -1).
Find(output, marker) ==
    IF \E i \in 1..Len(output) : output[i].t = marker
    THEN CHOOSE i \in 1..Len(output) :
            /\ output[i].t = marker
            /\ \A j \in 1..(i - 1) : output[j].t # marker
    ELSE 0

\* json.loads(output[start+len(marker):end].strip()): the document when the
\* text between the markers is exactly one JSON document, None (the
\* JSONDecodeError branch) when it is empty, has other text or has two.
LoadsBetween(output, start_idx, end_idx) ==
    IF end_idx = start_idx + 2 /\ output[start_idx + 1].t = "JSON"
    THEN output[start_idx + 1].doc
    ELSE NoneDoc

extract_json_from_output(output) ==
    LET js == Find(output, "JSON_START")
        je == Find(output, "JSON_END")
        as == Find(output, "APPROVAL_START")
        ae == Find(output, "APPROVAL_END")
    IN  IF js # 0 /\ je # 0 THEN LoadsBetween(output, js, je)
        ELSE IF as # 0 /\ ae # 0 THEN LoadsBetween(output, as, ae)
        ELSE NoneDoc

\* Python truthiness of a parsed document.
Truthy(doc) == doc.kind # "None"

(***************************************************************************)
(* Values.                                                                 *)
(***************************************************************************)
APPROVE_EMOJI == "thumbs_up"
REJECT_EMOJI == "thumbs_down"
OTHER_EMOJI == "other"
Emojis == {APPROVE_EMOJI, REJECT_EMOJI, OTHER_EMOJI}

NoReaction == [message |-> NoClient, emoji |-> "None", bot |-> FALSE]
NoResult == [success |-> FALSE, stdout |-> <<>>, return_code |-> 0]
NoProcess == [stdout |-> <<>>, returncode |-> 0]

BoundedSeq(S, n) == UNION {[1..m -> S] : m \in 0..n}

\* What the fetch script can leave on stdout.
FetchTokens ==
    {LogLine, JsonStart, JsonEnd, Garbage} \cup {Json(ClientsDoc(k)) : k \in 0..MaxClients}
FetchOutputs == BoundedSeq(FetchTokens, MaxOutLen)

TypeOK ==
    /\ mainPc \in {"start", "fetched", "draining", "locked", "counting", "exited",
                  "interrupted"}
    /\ last_status \in {"Campaign Started", "Data Fetch Failed", "Data Parse Failed",
                        "No Clients", "Starting Approvals", "Summary",
                        "Campaign Stopped"}
    /\ exitCode \in {NoExit, EXIT_OK, EXIT_FAILURE, EXIT_INTERRUPT}
    /\ Len(clients) \in 0..MaxClients
    /\ results_lock \in 0..MainThread
    /\ drained \subseteq Clients
    /\ catching \in 0..MaxClients
    /\ shared_results.processed \in 0..MaxClients
    /\ \A c \in Clients :
        /\ workerPc[c] \in {"idle", "submitted", "requesting", "returned",
                            "locked1", "counted", "locked2", "done", "faulted"}
        /\ status[c] \in {"none", "approved_and_sent", "error", "rejected", "script_error"}
        /\ scriptPc[c] \in {"none", "starting", "posted", "waiting", "decided",
                            "sending", "exited", "killed"}
        /\ embed[c] \in {"none", "PENDING", "APPROVED", "REJECTED", "TIMEOUT"}
        /\ sendPc[c] \in {"none", "running", "sent", "failed"}
    /\ MONITORING_ENABLED \in BOOLEAN
    /\ sink_raised \in [Clients -> BOOLEAN]
    /\ monitorPc \in {"off", "running", "summarised", "stopped"}
    /\ botPc \in {"off", "connecting", "startup", "ready", "flushing", "flushed",
                  "idle", "dead"}
    /\ is_connected \in BOOLEAN
    /\ channel \in {"None", "found"}
    /\ lock \in {Unlocked, BotThread}
    /\ Len(queued) \in 0..MaxUpdates
    /\ Len(sends) \in 0..MaxUpdates
    /\ cursor \in 0..(MaxUpdates + 1)
    /\ \A c \in Clients :
        /\ Len(client_updates[c]) \in 0..2
        /\ send_attempts[c] \in 0..2
    /\ missed \in [Clients -> BOOLEAN]

\* The orchestrator, its scripts and the monitor before main() has run.
OrchestratorInit ==
    /\ mainPc = "start"
    /\ exitCode = NoExit
    /\ clients = <<>>
    /\ shared_results = [total_clients |-> 0, processed |-> 0, approved |-> 0,
                         rejected |-> 0, errors |-> 0, client_results |-> <<>>]
    /\ results_lock = Free
    /\ drained = {}
    /\ catching = NoClient
    /\ workerPc = [c \in Clients |-> "idle"]
    /\ discord_result = [c \in Clients |-> NoResult]
    /\ status = [c \in Clients |-> "none"]
    /\ scriptPc = [c \in Clients |-> "none"]
    /\ process = [c \in Clients |-> NoProcess]
    /\ approval_result = [c \in Clients |-> [approved |-> FALSE, error |-> "None"]]
    /\ reaction = [c \in Clients |-> NoReaction]
    /\ discarded = [c \in Clients |-> FALSE]
    /\ embed = [c \in Clients |-> "none"]
    /\ sendPc = [c \in Clients |-> "none"]
    /\ final_results = NoReport
    /\ google_drive_result = NoResult
    /\ client_data_json = NoneDoc
    /\ last_status = "Campaign Started"
    /\ MONITORING_ENABLED \in BOOLEAN
    /\ sink_raised = [c \in Clients |-> FALSE]
    /\ monitorPc = "off"
    /\ botPc = "off"
    /\ is_connected = FALSE
    /\ channel = "None"
    /\ message_queue = <<>>
    /\ lock = Unlocked
    /\ cursor = 0
    /\ queued = <<>>
    /\ buffered = <<>>
    /\ sends = <<>>
    /\ client_updates = [c \in Clients |-> <<>>]
    /\ send_attempts = [c \in Clients |-> 0]
    /\ missed = [c \in Clients |-> FALSE]

\* find_client_row has not returned; it returned None.
NotCalled == -1
None == 0

\* Tracking identifiers, and the count of requests received for one.
Tids == {"t1", "t2"}
NoRequests == [open |-> 0, click |-> 0, bounce |-> 0]

\* PID_FILE does not exist.
NoFile == 0

\* The process identifiers the operating system hands out, and reuses.
Pids == 1..MaxPid

\* No manager command has run.  target is what the pid the command acted
\* on belonged to; stale tells that the pid came from a PID file that a
\* failed start had left.
NoCommand == [name |-> "none", success |-> FALSE, target |-> "none", stale |-> FALSE]

\* send_email has not returned.
NoSendResult == [returned |-> FALSE, success |-> FALSE]

\* No sheet read and no response printed.
NoSheet == [has_last_contacted_column |-> FALSE, rows |-> <<>>]
NoResponse == [success |-> FALSE, printed |-> FALSE]

\* The helper scripts before any of them has run.
ToolsIdle ==
    /\ df = NoSheet
    /\ response = NoResponse
    /\ values = <<>>
    /\ client_email = ""
    /\ client_row = NotCalled
    /\ email_tracking = <<>>
    /\ requested = [T \in Tids |-> NoRequests]
    /\ sendStep = "idle"
    /\ sent_tracking_id = "None"
    /\ send_result = NoSendResult
    /\ pid_file = NoFile
    /\ pid_source = "none"
    /\ processes = [p \in Pids |-> "free"]
    /\ command = NoCommand

Init == OrchestratorInit /\ ToolsIdle

(***************************************************************************)
(* main(): step 1, the fetch (lines 205-252).                              *)
(***************************************************************************)
\* sys.exit(code) inside main().
Exit(code) ==
    /\ mainPc' = "exited"
    /\ exitCode' = code

\* The status main() exits with once the report is printed.
ExitStatus(errors) == IF errors > 0 THEN EXIT_FAILURE ELSE EXIT_OK

\* run_script's result for a process that ran to its end.
Completed(proc) ==
    [success |-> proc.returncode = 0, stdout |-> proc.stdout,
     return_code |-> proc.returncode]

\* Lines 56-69 with the handlers reporting success.
FailedAsSuccess == [success |-> TRUE, stdout |-> <<>>, return_code |-> -1]

\* run_script's result when subprocess.run raised (TimeoutExpired or any
\* other exception).
Failed == [success |-> FALSE, stdout |-> <<>>, return_code |-> -1]

\* Lines 214-252 with the missing-clients test left out.
FetchVerdictNoEmptyCheck(result) ==
    IF ~result.success THEN "fetch_failed"
    ELSE IF ~Truthy(extract_json_from_output(result.stdout)) THEN "parse_failed"
    ELSE "go"

\* Lines 214-252 with the test of the fetch script's return code left out.
FetchVerdictIgnoresSuccess(result) ==
    IF ~Truthy(extract_json_from_output(result.stdout)) THEN "parse_failed"
    ELSE IF extract_json_from_output(result.stdout).n = 0 THEN "no_clients"
    ELSE "go"

\* Lines 214-252: what main() does with the fetch script's result.
FetchVerdict(result) ==
    IF ~result.success THEN "fetch_failed"
    ELSE IF ~Truthy(extract_json_from_output(result.stdout)) THEN "parse_failed"
    ELSE IF extract_json_from_output(result.stdout).n = 0 THEN "no_clients"
    ELSE "go"

\* Lines 205-252: run_script('scripts/get_file_google_drive.py') returned
\* with the given stdout and return code; main() parses it and stops or
\* goes on.
MainFetch(output, returncode) ==
    /\ mainPc = "start"
    /\ google_drive_result' = Completed([stdout |-> output, returncode |-> returncode])
    /\ LET verdict == FetchVerdict(google_drive_result')
           parsed == extract_json_from_output(output)
       IN  /\ client_data_json' = IF verdict = "fetch_failed" THEN NoneDoc ELSE parsed
           /\ clients' = IF verdict \in {"no_clients", "go"}
                         THEN [i \in 1..parsed.n |-> i]
                         ELSE <<>>
           /\ CASE verdict = "fetch_failed" ->
                      last_status' = "Data Fetch Failed" /\ Exit(EXIT_FAILURE)
                [] verdict = "parse_failed" ->
                      last_status' = "Data Parse Failed" /\ Exit(EXIT_FAILURE)
                [] verdict = "no_clients" ->
                      last_status' = "No Clients" /\ Exit(EXIT_OK)
                [] OTHER ->
                      /\ last_status' = "Starting Approvals"
                      /\ mainPc' = "fetched"
                      /\ UNCHANGED exitCode
    /\ UNCHANGED <<shared_results, results_lock, drained, catching, final_results>>
    /\ UNCHANGED <<workerVars, scriptVars>>
    /\ UNCHANGED <<sinkVars, toolVars, logVars>>

\* The fetch script ends with any output and either return code.
Fetch ==
    /\ mainPc = "start"
    /\ \E output \in FetchOutputs, returncode \in {EXIT_OK, EXIT_FAILURE} :
          MainFetch(output, returncode)

\* Lines 270-294: the shared dictionary, then one submitted future per client.
MainSubmit ==
    /\ mainPc = "fetched"
    /\ shared_results' = [total_clients |-> Len(clients), processed |-> 0,
                          approved |-> 0, rejected |-> 0, errors |-> 0,
                          client_results |-> <<>>]
    /\ workerPc' = [c \in Clients |-> IF c <= Len(clients) THEN "submitted" ELSE "idle"]
    /\ mainPc' = "draining"
    /\ UNCHANGED <<exitCode, fetchVars, results_lock, drained, catching,
                   final_results, last_status>>
    /\ UNCHANGED <<discord_result, status, scriptVars>>
    /\ UNCHANGED <<sinkVars, toolVars, logVars>>

(***************************************************************************)
(* process_client_approval: one thread per client.                         *)
(***************************************************************************)
\* A pool of one thread whatever the number of clients.
OneWorker(n) == 1

\* Line 282: ThreadPoolExecutor(max_workers=len(clients)).
max_workers(n) == n

\* The pool threads that are running a task.
Busy == {d \in Clients :
            workerPc[d] \in {"requesting", "returned", "locked1", "counted",
                             "locked2"}}

\* Lines 285-294: a submitted task is started as soon as fewer than
\* max_workers pool threads are running one.
PoolHasRoom == Cardinality(Busy) < max_workers(Len(clients))

\* Lines 145-178 with a failed run_script taken for a rejection.
StatusOfFailureRejected(result) ==
    IF result.success
    THEN LET approval_data == extract_json_from_output(result.stdout)
         IN  IF Truthy(approval_data) /\ approval_data.approved
             THEN "approved_and_sent"
             ELSE IF Truthy(approval_data) /\ approval_data.error # "None"
             THEN "error"
             ELSE "rejected"
    ELSE "rejected"

\* Lines 145-178: the branch taken on run_script's result, named by the
\* status the branch writes.
StatusOf(result) ==
    IF result.success
    THEN LET approval_data == extract_json_from_output(result.stdout)
         IN  IF Truthy(approval_data) /\ approval_data.approved
             THEN "approved_and_sent"
             ELSE IF Truthy(approval_data) /\ approval_data.error # "None"
             THEN "error"
             ELSE "rejected"
    ELSE "script_error"

\* The branches with the script_error branch announcing a rejection.
TerminalUpdateOfFailureRejected(st) ==
    CASE st = "approved_and_sent" -> "approved"
      [] st = "error" -> "error"
      [] st = "rejected" -> "rejected"
      [] OTHER -> "rejected"

\* Lines 152, 159, 167, 174: the status each branch hands to
\* send_client_status, by the status the branch writes.
TerminalUpdate(st) ==
    CASE st = "approved_and_sent" -> "approved"
      [] st = "error" -> "error"
      [] st = "rejected" -> "rejected"
      [] OTHER -> "error"

\* Lines 127-128, 151-152, 158-159, 166-167, 173-174, 313-314: a
\* send_client_status call for client c, made only with MONITORING_ENABLED.
send_client_status(c, update) ==
    client_updates' = IF MONITORING_ENABLED
                      THEN [client_updates EXCEPT ![c] = Append(@, update)]
                      ELSE client_updates

\* The branches with the rejected branch incrementing errors.
CounterOfRejectedAsError(st) ==
    CASE st = "approved_and_sent" -> "approved"
      [] OTHER -> "errors"

\* The counter each branch increments under the lock.
CounterOf(st) ==
    CASE st = "approved_and_sent" -> "approved"
      [] st = "rejected" -> "rejected"
      [] OTHER -> "errors"

\* The increment with the errors branches' `+= 1` left out.
IncrementDropsErrors(results, counter) ==
    CASE counter = "approved" -> [results EXCEPT !.approved = @ + 1]
      [] counter = "rejected" -> [results EXCEPT !.rejected = @ + 1]
      [] OTHER -> results

\* Lines 154, 161, 169, 176: the branch's counter is incremented.
Increment(results, counter) ==
    CASE counter = "approved" -> [results EXCEPT !.approved = @ + 1]
      [] counter = "rejected" -> [results EXCEPT !.rejected = @ + 1]
      [] OTHER -> [results EXCEPT !.errors = @ + 1]

\* Lines 121-134: the worker starts and run_script spawns the approval script.
WorkerRequest(c) ==
    /\ workerPc[c] = "submitted"
    /\ PoolHasRoom
    /\ workerPc' = [workerPc EXCEPT ![c] = "requesting"]
    /\ scriptPc' = [scriptPc EXCEPT ![c] = "starting"]
    /\ UNCHANGED <<mainVars, discord_result, status, approval_result, reaction,
                   embed, sendPc, process, discarded>>
    /\ send_client_status(c, "processing")
    /\ UNCHANGED <<sinkVars, toolVars, send_attempts, missed>>

\* Lines 63-69: subprocess.run raised before the script ran.
WorkerRequestFails(c) ==
    /\ workerPc[c] = "submitted"
    /\ PoolHasRoom
    /\ workerPc' = [workerPc EXCEPT ![c] = "returned"]
    /\ discord_result' = [discord_result EXCEPT ![c] = Failed]
    /\ UNCHANGED <<mainVars, status, scriptVars>>
    /\ send_client_status(c, "processing")
    /\ UNCHANGED <<sinkVars, toolVars, send_attempts, missed>>

\* Lines 48-55: the approval script exited and run_script returns its result.
RunScriptReturn(c) ==
    /\ workerPc[c] = "requesting"
    /\ scriptPc[c] = "exited"
    /\ workerPc' = [workerPc EXCEPT ![c] = "returned"]
    /\ discord_result' = [discord_result EXCEPT ![c] = Completed(process[c])]
    /\ UNCHANGED <<mainVars, status, scriptVars>>
    /\ UNCHANGED <<sinkVars, toolVars, logVars>>

\* Lines 48-53 without timeout=86400: subprocess.run never gives up.
RunScriptNoTimeout(c) ==
    /\ FALSE
    /\ workerPc[c] = "requesting"
    /\ UNCHANGED vars

\* Lines 56-62: 86400 s after the spawn the script still runs; subprocess.run
\* kills it (not the email script it may have started) and raises
\* TimeoutExpired.
RunScriptTimeout(c) ==
    /\ workerPc[c] = "requesting"
    /\ scriptPc[c] \notin {"exited", "killed"}
    /\ scriptPc' = [scriptPc EXCEPT ![c] = "killed"]
    /\ workerPc' = [workerPc EXCEPT ![c] = "returned"]
    /\ discord_result' = [discord_result EXCEPT ![c] = Failed]
    /\ UNCHANGED <<mainVars, status, approval_result, reaction, embed, sendPc,
                   process, discarded>>
    /\ UNCHANGED <<sinkVars, toolVars, logVars>>

\* A statement of the worker outside the lock raises (lines 121-131 before
\* the request, lines 147-174 after it): the future ends with the exception.
WorkerFault(c) ==
    /\ workerPc[c] \in {"submitted", "returned"}
    /\ workerPc[c] = "submitted" => PoolHasRoom
    /\ workerPc' = [workerPc EXCEPT ![c] = "faulted"]
    /\ UNCHANGED <<mainVars, discord_result, status, scriptVars>>
    /\ UNCHANGED <<sinkVars, toolVars, logVars>>

\* Lines 127-128, 151-152, 158-159, 166-167, 173-174: the worker's
\* send_client_status call, made only with MONITORING_ENABLED and outside
\* any try block, raises; the exception ends the future like any other.
SinkRaises(c) ==
    /\ MONITORING_ENABLED
    /\ workerPc[c] \in {"submitted", "returned"}
    /\ workerPc[c] = "submitted" => PoolHasRoom
    /\ workerPc' = [workerPc EXCEPT ![c] = "faulted"]
    /\ sink_raised' = [sink_raised EXCEPT ![c] = TRUE]
    /\ UNCHANGED <<mainVars, discord_result, status, scriptVars>>
    /\ UNCHANGED <<MONITORING_ENABLED, monitorVars, logVars, toolVars>>

\* The branch's critical section entered without waiting for the lock.
WorkerBargesIn(c) ==
    /\ workerPc[c] = "returned"
    /\ results_lock' = c
    /\ workerPc' = [workerPc EXCEPT ![c] = "locked1"]
    /\ UNCHANGED <<mainPc, exitCode, fetchVars, shared_results, drained, catching,
                   final_results, last_status, discord_result, status, scriptVars>>
    /\ send_client_status(c, TerminalUpdate(StatusOf(discord_result[c])))
    /\ UNCHANGED <<sinkVars, toolVars, send_attempts, missed>>

\* Lines 147-153, 156-160, 164-168, 171-175: the branch is chosen, its
\* update handed to the sink and, after that call has returned, the lock
\* acquired.
WorkerAcquireCount(c) ==
    /\ workerPc[c] = "returned"
    /\ results_lock = Free
    /\ results_lock' = c
    /\ workerPc' = [workerPc EXCEPT ![c] = "locked1"]
    /\ UNCHANGED <<mainPc, exitCode, fetchVars, shared_results, drained, catching,
                   final_results, last_status, discord_result, status, scriptVars>>
    /\ send_client_status(c, TerminalUpdate(StatusOf(discord_result[c])))
    /\ UNCHANGED <<sinkVars, toolVars, send_attempts, missed>>

\* Lines 154-155, 161-163, 169-170, 176-178: the branch's counter is
\* incremented, the lock released and the status written.
WorkerCount(c) ==
    /\ workerPc[c] = "locked1"
    /\ LET st == StatusOf(discord_result[c])
       IN  /\ shared_results' = Increment(shared_results, CounterOf(st))
           /\ status' = [status EXCEPT ![c] = st]
    /\ results_lock' = Free
    /\ workerPc' = [workerPc EXCEPT ![c] = "counted"]
    /\ UNCHANGED <<mainPc, exitCode, fetchVars, drained, catching, final_results,
                   last_status, discord_result, scriptVars>>
    /\ UNCHANGED <<sinkVars, toolVars, logVars>>

\* Line 180: the lock is acquired a second time.
WorkerAcquireAppend(c) ==
    /\ workerPc[c] = "counted"
    /\ results_lock = Free
    /\ results_lock' = c
    /\ workerPc' = [workerPc EXCEPT ![c] = "locked2"]
    /\ UNCHANGED <<mainPc, exitCode, fetchVars, shared_results, drained, catching,
                   final_results, last_status, discord_result, status, scriptVars>>
    /\ UNCHANGED <<sinkVars, toolVars, logVars>>

\* The ClientResult the worker appends.
ClientResult(c) == [client_email |-> clients[c], status |-> status[c]]

\* Lines 181-184 with the result put in front of the list.
WorkerPrepend(c) ==
    /\ workerPc[c] = "locked2"
    /\ shared_results' =
          [shared_results EXCEPT !.processed = @ + 1,
                                 !.client_results = <<ClientResult(c)>> \o @]
    /\ results_lock' = Free
    /\ workerPc' = [workerPc EXCEPT ![c] = "done"]
    /\ UNCHANGED <<mainPc, exitCode, fetchVars, drained, catching, final_results,
                   last_status, discord_result, status, scriptVars>>
    /\ UNCHANGED <<sinkVars, toolVars, logVars>>

\* Lines 181-184: processed is incremented, the result appended, the lock
\* released and the future completed.
WorkerAppend(c) ==
    /\ workerPc[c] = "locked2"
    /\ shared_results' =
          [shared_results EXCEPT !.processed = @ + 1,
                                 !.client_results = Append(@, ClientResult(c))]
    /\ results_lock' = Free
    /\ workerPc' = [workerPc EXCEPT ![c] = "done"]
    /\ UNCHANGED <<mainPc, exitCode, fetchVars, drained, catching, final_results,
                   last_status, discord_result, status, scriptVars>>
    /\ UNCHANGED <<sinkVars, toolVars, logVars>>

(***************************************************************************)
(* main(): the drain loop and the report (lines 303-360).                  *)
(***************************************************************************)
Submitted == 1..Len(clients)

\* Lines 303-309: as_completed hands over a future that returned a result.
MainDrain(c) ==
    /\ mainPc = "draining"
    /\ c \in Submitted \ drained
    /\ workerPc[c] = "done"
    /\ drained' = drained \cup {c}
    /\ UNCHANGED <<mainPc, exitCode, fetchVars, shared_results, results_lock,
                   catching, final_results, last_status, workerVars, scriptVars>>
    /\ UNCHANGED <<sinkVars, toolVars, logVars>>

\* Lines 310-315: future.result() raises the worker's exception; main()
\* hands the error update to the sink and then acquires the lock.
MainCatch(c) ==
    /\ mainPc = "draining"
    /\ c \in Submitted \ drained
    /\ workerPc[c] = "faulted"
    /\ results_lock = Free
    /\ results_lock' = MainThread
    /\ catching' = c
    /\ mainPc' = "locked"
    /\ UNCHANGED <<exitCode, fetchVars, shared_results, drained, final_results,
                   last_status, workerVars, scriptVars>>
    /\ send_client_status(c, "error")
    /\ UNCHANGED <<sinkVars, toolVars, send_attempts, missed>>

\* Line 316 without the increment of errors.
MainCountErrorSkips ==
    /\ mainPc = "locked"
    /\ mainPc' = "counting"
    /\ UNCHANGED <<exitCode, fetchVars, shared_results, results_lock, drained,
                   catching, final_results, last_status, workerVars, scriptVars>>
    /\ UNCHANGED <<sinkVars, toolVars, logVars>>

\* Line 316: errors is incremented under the lock.
MainCountError ==
    /\ mainPc = "locked"
    /\ shared_results' = [shared_results EXCEPT !.errors = @ + 1]
    /\ mainPc' = "counting"
    /\ UNCHANGED <<exitCode, fetchVars, results_lock, drained, catching,
                   final_results, last_status, workerVars, scriptVars>>
    /\ UNCHANGED <<sinkVars, toolVars, logVars>>

\* Line 317 without the increment of processed.
MainCountProcessedSkips ==
    /\ mainPc = "counting"
    /\ results_lock' = Free
    /\ drained' = drained \cup {catching}
    /\ catching' = NoClient
    /\ mainPc' = "draining"
    /\ UNCHANGED <<exitCode, fetchVars, shared_results, final_results, last_status,
                   workerVars, scriptVars>>
    /\ UNCHANGED <<sinkVars, toolVars, logVars>>

\* Line 317: processed is incremented and the lock released.
MainCountProcessed ==
    /\ mainPc = "counting"
    /\ shared_results' = [shared_results EXCEPT !.processed = @ + 1]
    /\ results_lock' = Free
    /\ drained' = drained \cup {catching}
    /\ catching' = NoClient
    /\ mainPc' = "draining"
    /\ UNCHANGED <<exitCode, fetchVars, final_results, last_status, workerVars,
                   scriptVars>>
    /\ UNCHANGED <<sinkVars, toolVars, logVars>>

\* Lines 337-341: the report is a copy of the shared dictionary.
Report(results) ==
    [reported |-> TRUE, total_clients |-> results.total_clients,
     processed |-> results.processed, approved |-> results.approved,
     rejected |-> results.rejected, errors |-> results.errors,
     client_results |-> results.client_results]

\* The report printed without waiting for every future.
MainReportEarly ==
    /\ mainPc = "draining"
    /\ final_results' = Report(shared_results)
    /\ last_status' = "Summary"
    /\ Exit(ExitStatus(final_results'.errors))
    /\ UNCHANGED <<fetchVars, shared_results, results_lock, drained, catching,
                   workerVars, scriptVars>>
    /\ UNCHANGED <<sinkVars, toolVars, logVars>>

\* Lines 319-360: every future is drained; the report is printed and the
\* process exits.
MainReport ==
    /\ mainPc = "draining"
    /\ drained = Submitted
    /\ final_results' = Report(shared_results)
    /\ last_status' = "Summary"
    /\ Exit(ExitStatus(final_results'.errors))
    /\ UNCHANGED <<fetchVars, shared_results, results_lock, drained, catching,
                   workerVars, scriptVars>>
    /\ UNCHANGED <<sinkVars, toolVars, logVars>>

(***************************************************************************)
(* scripts/discord_api_message_send.py: one process per client.            *)
(***************************************************************************)
Running(c) == workerPc[c] = "requesting"

\* Messages in the approval channel.
Posted == {m \in Clients : embed[m] # "none"}

\* reaction_add events: the message reacted on, the emoji, and whether the
\* reacting user is a bot.
Reactions == [message : Posted, emoji : Emojis, bot : BOOLEAN]

\* Lines 272-277 without the comparison of message ids.
check_reaction_any_message(ev, message_id) ==
    /\ ev.emoji \in {APPROVE_EMOJI, REJECT_EMOJI}
    /\ ~ev.bot

\* Lines 272-277 without `not user.bot`.
check_reaction_allows_bots(ev, message_id) ==
    /\ ev.message = message_id
    /\ ev.emoji \in {APPROVE_EMOJI, REJECT_EMOJI}

\* Lines 272-277.
check_reaction(ev, message_id) ==
    /\ ev.message = message_id
    /\ ev.emoji \in {APPROVE_EMOJI, REJECT_EMOJI}
    /\ ~ev.bot

\* stdout of a script that got as far as printing its result (lines 370-372).
ResultOutput(result) ==
    <<LogLine, ApprovalStart, Json(ApprovalDoc(result)), ApprovalEnd, LogLine>>

\* Lines 374-392 for a result that does not lead to a send: the exit status.
ScriptExitStatus(result) ==
    IF result.approved THEN 0
    ELSE IF result.error # "None" THEN 1
    ELSE 0

\* on_ready returned and client.start with it; main() prints the result and
\* either starts the email script (line 379) or ends (lines 388-392).
Conclude(c, result) ==
    /\ approval_result' = [approval_result EXCEPT ![c] = result]
    /\ IF result.approved
       THEN /\ scriptPc' = [scriptPc EXCEPT ![c] = "sending"]
            /\ sendPc' = [sendPc EXCEPT ![c] = "running"]
            /\ send_attempts' = [send_attempts EXCEPT ![c] = @ + 1]
            /\ process' = [process EXCEPT ![c] =
                              [stdout |-> ResultOutput(result), returncode |-> 0]]
       ELSE /\ scriptPc' = [scriptPc EXCEPT ![c] = "exited"]
            /\ process' = [process EXCEPT ![c] =
                              [stdout |-> ResultOutput(result),
                               returncode |-> ScriptExitStatus(result)]]
            /\ UNCHANGED <<sendPc, send_attempts>>

\* Lines 345-363 and 394-399: the script ends without printing a result:
\* an import or validation failure, or client.start raising (login failure,
\* connection lost for good) at any point before on_ready has returned,
\* which main() catches at line 397.
ScriptCrash(c) ==
    /\ Running(c)
    /\ scriptPc[c] \in {"starting", "posted", "waiting", "decided"}
    /\ scriptPc' = [scriptPc EXCEPT ![c] = "exited"]
    /\ process' = [process EXCEPT ![c] = [stdout |-> <<LogLine>>, returncode |-> 1]]
    /\ UNCHANGED <<mainVars, workerVars, approval_result, reaction, embed, sendPc,
                   discarded>>
    /\ UNCHANGED <<sinkVars, toolVars, logVars>>

\* Lines 238-248: the channel is missing or is no text channel.
ScriptChannelMissing(c) ==
    /\ Running(c)
    /\ scriptPc[c] = "starting"
    /\ Conclude(c, [approval_result[c] EXCEPT !.error = "channel"])
    /\ UNCHANGED <<mainVars, workerVars, reaction, embed, discarded>>
    /\ UNCHANGED <<sinkVars, toolVars, client_updates, missed>>

\* Lines 250-260: the approval message is posted.
ScriptPost(c) ==
    /\ Running(c)
    /\ scriptPc[c] = "starting"
    /\ embed' = [embed EXCEPT ![c] = "PENDING"]
    /\ scriptPc' = [scriptPc EXCEPT ![c] = "posted"]
    /\ UNCHANGED <<mainVars, workerVars, approval_result, reaction, sendPc,
                   process, discarded>>
    /\ UNCHANGED <<sinkVars, toolVars, logVars>>

\* Lines 330-332: posting the message or adding a seed reaction raises.
ScriptPostError(c) ==
    /\ Running(c)
    /\ scriptPc[c] \in {"starting", "posted"}
    /\ Conclude(c, [approval_result[c] EXCEPT !.error = "exception"])
    /\ UNCHANGED <<mainVars, workerVars, reaction, embed, discarded>>
    /\ UNCHANGED <<sinkVars, toolVars, client_updates, missed>>

\* Lines 262-284: both seed reactions are added and wait_for starts to listen.
ScriptWait(c) ==
    /\ Running(c)
    /\ scriptPc[c] = "posted"
    /\ scriptPc' = [scriptPc EXCEPT ![c] = "waiting"]
    /\ UNCHANGED <<mainVars, workerVars, approval_result, reaction, embed, sendPc,
                   process, discarded>>
    /\ UNCHANGED <<sinkVars, toolVars, logVars>>

\* Lines 280-288, 301-303: a reaction_add event passes check_reaction and
\* wait_for returns it.
ScriptReaction(c, ev) ==
    /\ Running(c)
    /\ scriptPc[c] = "waiting"
    /\ check_reaction(ev, c)
    /\ reaction' = [reaction EXCEPT ![c] = ev]
    /\ approval_result' = [approval_result EXCEPT ![c].approved = (ev.emoji = APPROVE_EMOJI)]
    /\ scriptPc' = [scriptPc EXCEPT ![c] = "decided"]
    /\ UNCHANGED <<mainVars, workerVars, embed, sendPc, process, discarded>>
    /\ UNCHANGED <<sinkVars, toolVars, logVars>>

\* A reaction_add event check_reaction turns down; wait_for keeps waiting.
ScriptDiscard(c, ev) ==
    /\ Running(c)
    /\ scriptPc[c] = "waiting"
    /\ ~check_reaction(ev, c)
    /\ discarded' = [discarded EXCEPT ![c] = TRUE]
    /\ UNCHANGED <<mainVars, workerVars, scriptPc, approval_result, reaction,
                   embed, sendPc, process>>
    /\ UNCHANGED <<sinkVars, toolVars, logVars>>

\* Lines 316-318: wait_for raises TimeoutError after TIMEOUT_SECONDS.
ScriptTimeout(c) ==
    /\ Running(c)
    /\ scriptPc[c] = "waiting"
    /\ approval_result' = [approval_result EXCEPT ![c].error = "timeout"]
    /\ scriptPc' = [scriptPc EXCEPT ![c] = "decided"]
    /\ UNCHANGED <<mainVars, workerVars, reaction, embed, sendPc, process, discarded>>
    /\ UNCHANGED <<sinkVars, toolVars, logVars>>

\* What the message is edited to show (lines 291-299, 306-314, 320-328).
Terminal(result) ==
    IF result.error = "timeout" THEN "TIMEOUT"
    ELSE IF result.approved THEN "APPROVED"
    ELSE "REJECTED"

\* message.edit succeeds and the script goes on to its end.
ScriptEdit(c) ==
    /\ Running(c)
    /\ scriptPc[c] = "decided"
    /\ embed' = [embed EXCEPT ![c] = Terminal(approval_result[c])]
    /\ Conclude(c, approval_result[c])
    /\ UNCHANGED <<mainVars, workerVars, reaction, discarded>>
    /\ UNCHANGED <<sinkVars, toolVars, client_updates, missed>>

\* message.edit raises; line 331 records the exception as the error.
ScriptEditError(c) ==
    /\ Running(c)
    /\ scriptPc[c] = "decided"
    /\ Conclude(c, [approval_result[c] EXCEPT !.error = "exception"])
    /\ UNCHANGED <<mainVars, workerVars, reaction, embed, discarded>>
    /\ UNCHANGED <<sinkVars, toolVars, client_updates, missed>>

\* scripts/send_email.py trying again, once, when the send has failed.
SendEmailRetries(c, ok) ==
    /\ sendPc[c] = "running"
    /\ IF ok \/ send_attempts[c] >= 2
       THEN /\ sendPc' = [sendPc EXCEPT ![c] = IF ok THEN "sent" ELSE "failed"]
            /\ UNCHANGED send_attempts
       ELSE /\ send_attempts' = [send_attempts EXCEPT ![c] = @ + 1]
            /\ UNCHANGED sendPc
    /\ UNCHANGED <<mainVars, workerVars, scriptPc, approval_result, reaction,
                   embed, process, discarded>>
    /\ UNCHANGED <<sinkVars, toolVars, client_updates, missed>>

\* scripts/send_email.py ends: the email went out (exit 0) or did not
\* (exit 1).  It runs on when the approval script was killed meanwhile.
SendEmail(c, ok) ==
    /\ sendPc[c] = "running"
    /\ sendPc' = [sendPc EXCEPT ![c] = IF ok THEN "sent" ELSE "failed"]
    /\ UNCHANGED <<mainVars, workerVars, scriptPc, approval_result, reaction,
                   embed, process, discarded>>
    /\ UNCHANGED <<sinkVars, toolVars, logVars>>

\* Lines 383-386: the email script returned; whatever its return code, the
\* approval script prints a line and ends with status 0.
ScriptEnd(c) ==
    /\ Running(c)
    /\ scriptPc[c] = "sending"
    /\ sendPc[c] \in {"sent", "failed"}
    /\ scriptPc' = [scriptPc EXCEPT ![c] = "exited"]
    /\ UNCHANGED <<mainVars, workerVars, approval_result, reaction, embed, sendPc,
                   process, discarded>>
    /\ UNCHANGED <<sinkVars, toolVars, logVars>>

Next ==
    \/ Fetch
    \/ MainSubmit
    \/ \E c \in Clients : WorkerRequest(c)
    \/ \E c \in Clients : WorkerRequestFails(c)
    \/ \E c \in Clients : RunScriptReturn(c)
    \/ \E c \in Clients : RunScriptTimeout(c)
    \/ \E c \in Clients : WorkerFault(c)
    \/ \E c \in Clients : SinkRaises(c)
    \/ \E c \in Clients : WorkerAcquireCount(c)
    \/ \E c \in Clients : WorkerCount(c)
    \/ \E c \in Clients : WorkerAcquireAppend(c)
    \/ \E c \in Clients : WorkerAppend(c)
    \/ \E c \in Clients : MainDrain(c)
    \/ \E c \in Clients : MainCatch(c)
    \/ MainCountError
    \/ MainCountProcessed
    \/ MainReport
    \/ \E c \in Clients : ScriptCrash(c)
    \/ \E c \in Clients : ScriptChannelMissing(c)
    \/ \E c \in Clients : ScriptPost(c)
    \/ \E c \in Clients : ScriptPostError(c)
    \/ \E c \in Clients : ScriptWait(c)
    \/ \E c \in Clients, ev \in Reactions : ScriptReaction(c, ev)
    \/ \E c \in Clients, ev \in Reactions : ScriptDiscard(c, ev)
    \/ \E c \in Clients : ScriptTimeout(c)
    \/ \E c \in Clients : ScriptEdit(c)
    \/ \E c \in Clients : ScriptEditError(c)
    \/ \E c \in Clients, ok \in BOOLEAN : SendEmail(c, ok)
    \/ \E c \in Clients : ScriptEnd(c)

Spec == Init /\ [][Next]_vars

\* run_script is a blocking subprocess.run(..., timeout=86400): the operating
\* system reports the script's exit, and the timer expires, without fail.
\* Nothing else is assumed to happen: Discord may never answer and no human
\* may ever react.
LiveSpec ==
    Spec /\ \A c \in Clients : WF_vars(RunScriptReturn(c) \/ RunScriptTimeout(c))

(***************************************************************************)
(* scripts/discord_monitor.py: the monitor.  The orchestrator's threads    *)
(* hand it updates, a bot thread sends them.                               *)
(***************************************************************************)
orchestratorVars == <<campaignVars, MONITORING_ENABLED, sink_raised, logVars,
                      toolVars>>

\* The update a send_* call builds: the embed, named by its place in the
\* order of submission and by the call that built it.
Update(kind) == [id |-> Len(queued) + 1, kind |-> kind]

\* Lines 79-86: the update is appended under the lock.
Enqueue(kind) ==
    /\ lock = Unlocked
    /\ message_queue' = Append(message_queue, Update(kind))
    /\ queued' = Append(queued, Update(kind))
    /\ buffered' = IF is_connected THEN buffered ELSE Append(buffered, Update(kind))

\* Lines 211-229: start_monitoring starts the bot thread, or returns at once
\* when BOT_TOKEN is not configured.
start_monitoring(token) ==
    /\ monitorPc = "off"
    /\ monitorPc' = "running"
    /\ botPc' = IF token THEN "connecting" ELSE "off"
    /\ UNCHANGED <<is_connected, channel, message_queue, lock, cursor, queued,
                   buffered, sends>>
    /\ UNCHANGED orchestratorVars

\* Lines 88-110 and 112-156: send_status_update and send_client_update build
\* an embed and queue it, whatever is_connected says.
queue_message(kind) ==
    /\ monitorPc = "running"
    /\ Len(queued) < MaxUpdates - 1
    /\ Enqueue(kind)
    /\ UNCHANGED <<monitorPc, botPc, is_connected, channel, lock, cursor, sends>>
    /\ UNCHANGED orchestratorVars

\* Lines 158-209: send_summary_report queues the summary, the last update of
\* a run (orchestrator line 345).
send_summary_report ==
    /\ monitorPc = "running"
    /\ Enqueue("summary")
    /\ monitorPc' = "summarised"
    /\ UNCHANGED <<botPc, is_connected, channel, lock, cursor, sends>>
    /\ UNCHANGED orchestratorVars

\* Lines 231-247, called three seconds after the summary was queued
\* (orchestrator lines 352-354): no event loop runs in the calling thread,
\* so the monitor is only marked as disconnected.
stop_monitoring ==
    /\ monitorPc = "summarised"
    /\ monitorPc' = "stopped"
    /\ is_connected' = FALSE
    /\ UNCHANGED <<botPc, channel, message_queue, lock, cursor, queued, buffered,
                   sends>>
    /\ UNCHANGED orchestratorVars

\* Orchestrator lines 357-360: sys.exit ends the process and with it the bot
\* thread, a daemon thread (line 223).
ProcessExit ==
    /\ monitorPc = "stopped"
    /\ botPc # "dead"
    /\ botPc' = "dead"
    /\ UNCHANGED <<monitorPc, is_connected, channel, message_queue, lock, cursor,
                   queued, buffered, sends>>
    /\ UNCHANGED orchestratorVars

\* Lines 217-221: client.start raises (login refused, no network); run_bot
\* prints the error and the thread ends.
BotLoginFails ==
    /\ botPc = "connecting"
    /\ botPc' = "dead"
    /\ UNCHANGED <<monitorPc, is_connected, channel, message_queue, lock, cursor,
                   queued, buffered, sends>>
    /\ UNCHANGED orchestratorVars

\* Lines 28-35, 42-43: on_ready looks the channel up; found, the monitor is
\* connected; not found, on_ready prints and returns.
on_ready(found) ==
    /\ botPc = "connecting"
    /\ channel' = IF found THEN "found" ELSE "None"
    /\ is_connected' = found
    /\ botPc' = IF found THEN "startup" ELSE "idle"
    /\ UNCHANGED <<monitorPc, message_queue, lock, cursor, queued, buffered, sends>>
    /\ UNCHANGED orchestratorVars

\* Lines 37-38, 45-64: the startup message is sent; when channel.send
\* raises, on_ready ends with the exception and flushes nothing.
send_startup_message(ok) ==
    /\ botPc = "startup"
    /\ botPc' = IF ok THEN "ready" ELSE "idle"
    /\ UNCHANGED <<monitorPc, is_connected, channel, message_queue, lock, cursor,
                   queued, buffered, sends>>
    /\ UNCHANGED orchestratorVars

\* Lines 40-41, 66-68: process_message_queue takes the lock and keeps it
\* for the whole loop.
process_message_queue ==
    /\ botPc = "ready"
    /\ lock = Unlocked
    /\ lock' = BotThread
    /\ cursor' = 1
    /\ botPc' = "flushing"
    /\ UNCHANGED <<monitorPc, is_connected, channel, message_queue, queued,
                   buffered, sends>>
    /\ UNCHANGED orchestratorVars

\* Line 69 from its end: the loop takes the newest update first.
NewestFirst(queue, i) == queue[Len(queue) + 1 - i]

\* Line 69: the i-th update the for loop takes.
Taken(queue, i) == queue[i]

\* Lines 69-76: the next queued update is sent; an exception of channel.send
\* is printed and the loop goes on.
FlushSend(ok) ==
    /\ botPc = "flushing"
    /\ cursor <= Len(message_queue)
    /\ sends' = Append(sends, [update |-> Taken(message_queue, cursor), ok |-> ok])
    /\ cursor' = cursor + 1
    /\ UNCHANGED <<monitorPc, botPc, is_connected, channel, message_queue, lock,
                   queued, buffered>>
    /\ UNCHANGED orchestratorVars

\* Line 77: the loop is over; the queue is cleared, the lock released and
\* on_ready returns.
FlushClear ==
    /\ botPc = "flushing"
    /\ cursor > Len(message_queue)
    /\ message_queue' = <<>>
    /\ lock' = Unlocked
    /\ cursor' = 0
    /\ botPc' = "flushed"
    /\ UNCHANGED <<monitorPc, is_connected, channel, queued, buffered, sends>>
    /\ UNCHANGED orchestratorVars

\* The monitor as the orchestrator uses it: started, handed updates by any
\* thread, handed the summary, stopped.
MonitorInit == Init /\ MONITORING_ENABLED

MonitorNext ==
    \/ \E token \in BOOLEAN : start_monitoring(token)
    \/ \E kind \in {"status", "client"} : queue_message(kind)
    \/ send_summary_report
    \/ stop_monitoring
    \/ ProcessExit
    \/ BotLoginFails
    \/ \E found \in BOOLEAN : on_ready(found)
    \/ \E ok \in BOOLEAN : send_startup_message(ok)
    \/ process_message_queue
    \/ \E ok \in BOOLEAN : FlushSend(ok)
    \/ FlushClear

MonitorSpec == MonitorInit /\ [][MonitorNext]_vars

(***************************************************************************)
(* Properties.                                                             *)
(***************************************************************************)
Reported == final_results.reported
Outcomes(results) == results.approved + results.rejected + results.errors
Finished(c) == workerPc[c] = "done"
FetchFailed ==
    mainPc # "start" /\ (~google_drive_result.success \/ ~Truthy(client_data_json))
NoWork ==
    mainPc # "start" /\ google_drive_result.success /\ Truthy(client_data_json)
        /\ client_data_json.n = 0

\* C1: when main() reaches the final report, processed equals the number of
\* clients and so does approved + rejected + errors, whatever each worker's
\* outcome and whatever the interleaving.
C1_ReportCountsAll ==
    Reported =>
        /\ final_results.processed = Len(clients)
        /\ Outcomes(final_results) = Len(clients)
        /\ final_results.total_clients = Len(clients)

\* C1 witness: a report over a full client list in which one worker raised
\* and another was approved.
C1_Witness ==
    /\ Reported
    /\ Len(clients) = MaxClients
    /\ \E c, d \in Submitted :
          workerPc[c] = "faulted" /\ status[d] = "approved_and_sent"

\* Threads that have incremented an outcome counter and not yet processed.
BetweenIncrements ==
    Cardinality({c \in Clients : workerPc[c] \in {"counted", "locked2"}})
        + (IF mainPc = "counting" THEN 1 ELSE 0)

\* C2 as stated: processed == approved + rejected + errors and
\* processed <= total_clients in every reachable state.
C2_Original ==
    /\ shared_results.processed = Outcomes(shared_results)
    /\ shared_results.processed <= shared_results.total_clients

\* C2 as amended: processed <= approved + rejected + errors <= total_clients
\* always; the two differ by the number of threads between their outcome
\* increment and their processed increment, so they are equal whenever no
\* thread is between the two.
C2_CountersBracket ==
    /\ shared_results.processed <= Outcomes(shared_results)
    /\ Outcomes(shared_results) <= shared_results.total_clients
    /\ Outcomes(shared_results) - shared_results.processed = BetweenIncrements
    /\ Reported => final_results.processed = Outcomes(final_results)

\* C2 witness: every worker of a full list is between its two lock
\* acquisitions.
C2_Witness ==
    /\ Len(clients) = MaxClients
    /\ \A c \in Submitted : workerPc[c] = "counted"
    /\ Outcomes(shared_results) = MaxClients
    /\ shared_results.processed = 0

\* C3 as stated: the report's client_results holds exactly one ClientResult
\* per client email, however each worker ended.
C3_OneResultPerClient ==
    Reported =>
        \A c \in Submitted :
            Cardinality({i \in 1..Len(final_results.client_results) :
                            final_results.client_results[i].client_email = clients[c]}) = 1

\* The approval script ran to its end and the worker recorded its result.
RanToEnd(c) == Finished(c) /\ scriptPc[c] = "exited"
ApprovedBySignal(c) == reaction[c].emoji = APPROVE_EMOJI

\* C4 as stated: approve signal and successful send give approved_and_sent;
\* approve signal and failed send give error or script_error, counted in
\* errors.
C4_SendFailureIsError ==
    /\ \A c \in Submitted :
          RanToEnd(c) /\ ApprovedBySignal(c) =>
              /\ sendPc[c] = "sent" => status[c] = "approved_and_sent"
              /\ sendPc[c] = "failed" => status[c] \in {"error", "script_error"}
    /\ Reported =>
          final_results.errors >=
              Cardinality({c \in Submitted : RanToEnd(c) /\ sendPc[c] = "failed"})

\* The request ended by the script's own timeout and shows it.
TimedOut(c) == embed[c] = "TIMEOUT"
\* Nobody decided within the window: wait_for timed out, or run_script's
\* timer ended the script while its posted request was still undecided.
NoDecision(c) ==
    \/ TimedOut(c) /\ scriptPc[c] = "exited"
    \/ scriptPc[c] = "killed" /\ embed[c] = "PENDING" /\ reaction[c] = NoReaction

\* C5 as stated: a request nobody decided within the window ends with status
\* rejected, counted in rejected and not in errors, and no email is sent.
C5_TimeoutIsRejected ==
    /\ \A c \in Submitted :
          Finished(c) /\ NoDecision(c) => status[c] = "rejected" /\ sendPc[c] = "none"
    /\ (Reported /\ \A c \in Submitted : Finished(c) /\ NoDecision(c)) =>
          final_results.rejected = Len(clients) /\ final_results.errors = 0

\* The request ended by a human's reject reaction.
Rejected(c) == embed[c] = "REJECTED"

\* C6 as stated: after a run with clients the exit status is failure exactly
\* when errors > 0, and a run whose clients were all rejected or timed out
\* exits with success.
C6_ExitStatus ==
    Reported =>
        /\ exitCode = EXIT_FAILURE <=> final_results.errors > 0
        /\ exitCode \in {EXIT_OK, EXIT_FAILURE}
        /\ (\A c \in Submitted : Finished(c) /\ (Rejected(c) \/ NoDecision(c)))
              => exitCode = EXIT_OK

\* C7: the email script is started for a client only after wait_for returned
\* an approve reaction by a human on that client's own message; never after
\* a reject reaction and never after the timeout.
C7_SendOnlyOnOwnApproval ==
    \A c \in Clients :
        /\ sendPc[c] # "none" =>
              reaction[c] = [message |-> c, emoji |-> APPROVE_EMOJI, bot |-> FALSE]
        /\ reaction[c].emoji = REJECT_EMOJI => sendPc[c] = "none"
        /\ (approval_result[c].error = "timeout" \/ TimedOut(c)) => sendPc[c] = "none"

\* C7 witness: one client's email went out after its script had turned down
\* an event, while another client's script ended on a reject reaction
\* without a send.
C7_Witness ==
    \E c, d \in Submitted :
        /\ sendPc[c] = "sent" /\ discarded[c]
        /\ reaction[d].emoji = REJECT_EMOJI /\ scriptPc[d] = "exited"
        /\ sendPc[d] = "none"

\* C8 as stated: with zero clients the run ends at once, no worker spawned,
\* processed = 0 and errors = 0, with an exit status that is neither the
\* success status of a campaign run nor the failure status.
C8_Original ==
    NoWork =>
        /\ mainPc = "exited"
        /\ \A c \in Clients : workerPc[c] = "idle" /\ scriptPc[c] = "none"
        /\ shared_results.processed = 0 /\ shared_results.errors = 0
        /\ exitCode # ExitStatus(0)
        /\ exitCode # ExitStatus(1)

\* C8 as amended: with zero clients the run ends at once, no worker spawned
\* and processed = 0 and errors = 0; it prints no report and exits with
\* status 0, the status of a campaign without errors, which differs from
\* the failure status; only the "No Clients" notice tells it apart.
C8_NoWorkExitsZero ==
    /\ NoWork =>
        /\ mainPc = "exited"
        /\ \A c \in Clients : workerPc[c] = "idle" /\ scriptPc[c] = "none"
        /\ shared_results.processed = 0 /\ shared_results.errors = 0
        /\ ~Reported
        /\ exitCode = ExitStatus(0)
        /\ exitCode # ExitStatus(1)
        /\ last_status = "No Clients"
    /\ last_status = "No Clients" => NoWork

\* C8 witness: a fetch that printed a well-formed document with no client.
C8_Witness ==
    /\ NoWork
    /\ google_drive_result.stdout = <<JsonStart, Json(ClientsDoc(0)), JsonEnd>>

\* The approval script of the client could not run or ended with an error.
ChannelFailed(c) == workerPc[c] \in {"locked1", "counted", "locked2", "done"}
                        /\ ~discord_result[c].success

\* C9: a client whose approval script cannot run or exits with an error is
\* recorded as script_error and counted in errors, the run still reaches
\* its report and exits with failure, and every other client whose script
\* ran to its end gets the status of its own decision.
C9_ChannelFailureIsLocal ==
    /\ \A c \in Submitted :
          Finished(c) /\ ChannelFailed(c) =>
              /\ status[c] = "script_error"
              /\ \E i \in 1..Len(shared_results.client_results) :
                    shared_results.client_results[i] =
                        [client_email |-> clients[c], status |-> "script_error"]
    /\ (Reported /\ \E c \in Submitted : ChannelFailed(c)) =>
          /\ exitCode = EXIT_FAILURE
          /\ final_results.errors >= Cardinality({c \in Submitted : ChannelFailed(c)})
    /\ \A d \in Submitted :
          RanToEnd(d) /\ discord_result[d].success =>
              /\ ApprovedBySignal(d) => status[d] = "approved_and_sent"
              /\ Rejected(d) => status[d] = "rejected"
    /\ (mainPc = "draining" /\ \A c \in Submitted : workerPc[c] \in {"done", "faulted"})
          => ENABLED (MainReport \/ \E c \in Clients : MainDrain(c) \/ MainCatch(c))

\* C9 witness: the report of a run in which one approval script exited with
\* an error while another client, decided later, was approved.
C9_Witness ==
    /\ Reported
    /\ \E c, d \in Submitted :
          /\ ChannelFailed(c) /\ process[c].returncode = 1
          /\ status[d] = "approved_and_sent"
          /\ final_results.client_results[1].client_email = clients[c]

\* C10: when the fetch script fails or its output cannot be parsed, the run
\* ends at once with failure status; no approval request is issued and no
\* email is sent.
C10_FetchFailureIsFatal ==
    FetchFailed =>
        /\ mainPc = "exited"
        /\ exitCode = EXIT_FAILURE
        /\ \A c \in Clients :
              workerPc[c] = "idle" /\ scriptPc[c] = "none" /\ sendPc[c] = "none"
                  /\ embed[c] = "none"

\* C10 witness: the fetch script exited 0 but the text between its markers
\* is not a JSON document.
C10_Witness ==
    /\ FetchFailed
    /\ google_drive_result.success
    /\ google_drive_result.stdout = <<JsonStart, Garbage, JsonEnd>>

\* Clients the run counts as errors for reasons of their own: an error
\* branch of the worker, or an exception no sink call raised.
ErroredWithoutSink ==
    {c \in Submitted :
        \/ Finished(c) /\ CounterOf(status[c]) = "errors"
        \/ workerPc[c] = "faulted" /\ ~sink_raised[c]}

\* C11 as stated: the campaign's outcome does not depend on the sink.  A
\* sink call that raises never makes a worker skip its approval request and
\* never makes main() count the client as an error, so the report's errors
\* and the exit status are those of the clients that errored by
\* themselves, with or without monitoring.
C11_SinkIndependent ==
    /\ \A c \in Submitted :
          sink_raised[c] => scriptPc[c] # "none" /\ catching # c /\ c \notin drained
    /\ Reported =>
          /\ final_results.errors = Cardinality(ErroredWithoutSink)
          /\ exitCode = ExitStatus(Cardinality(ErroredWithoutSink))

\* An approval result that is approved and an error at once.
TwoVariants(result) == result.approved /\ result.error # "None"

\* C12 as stated: each approval request resolves to exactly one outcome.
\* Neither the script's approval_result nor the document the worker parses
\* from its output is ever approved and an error at once, and a worker that
\* has counted its client has written exactly one status.
C12_OneOutcome ==
    \A c \in Clients :
        /\ ~TwoVariants(approval_result[c])
        /\ workerPc[c] \in {"returned", "locked1", "counted", "locked2", "done"} =>
              ~TwoVariants(extract_json_from_output(discord_result[c].stdout))
        /\ workerPc[c] \in {"counted", "locked2", "done"} =>
              status[c] \in {"approved_and_sent", "rejected", "error", "script_error"}

\* C13: every approval request returns an outcome to its worker: a worker
\* waiting in run_script does not wait forever, whether the script never
\* connects, hangs after posting or gets no reaction.  What bounds the wait
\* is the 86400 s timer of run_script, started when the script is spawned.
C13_RequestReturns ==
    \A c \in Clients : (workerPc[c] = "requesting") ~> (workerPc[c] # "requesting")

\* C13 witness: one worker got its result back from a script that never
\* posted, another from a script that hung on a posted request nobody
\* reacted to.
C13_Witness ==
    \E c, d \in Submitted :
        /\ workerPc[c] = "returned" /\ scriptPc[c] = "killed" /\ embed[c] = "none"
        /\ workerPc[d] = "returned" /\ scriptPc[d] = "killed"
        /\ embed[d] = "PENDING" /\ reaction[d] = NoReaction

\* A reaction by a human, with one of the two decision emojis, on the
\* message the client's own request posted.
OwnDecision(ev, c) ==
    ev.message = c /\ ev.emoji \in {APPROVE_EMOJI, REJECT_EMOJI} /\ ~ev.bot

\* C14: a request is resolved only by a human's approve or reject reaction
\* on the message the request itself posted.  While requests are pending, a
\* reaction on another client's message, a reaction with another emoji and
\* a reaction by a bot (the script's own two seed reactions are such) cannot
\* end the wait, and a message shows a decision only after such a reaction.
C14_OnlyOwnReactionResolves ==
    \A c \in Clients :
        /\ reaction[c] # NoReaction => OwnDecision(reaction[c], c)
        /\ embed[c] \in {"APPROVED", "REJECTED"} => OwnDecision(reaction[c], c)
        /\ approval_result[c].approved => OwnDecision(reaction[c], c)
        /\ scriptPc[c] = "waiting" =>
              \A ev \in Reactions :
                  ~OwnDecision(ev, c) => ~ENABLED ScriptReaction(c, ev)

\* C14 witness: two requests were pending; one is now resolved by a reaction
\* on its own message, while the other script, which has turned an event
\* down, still waits and turns down that very reaction.
C14_Witness ==
    \E c, d \in Submitted :
        /\ c # d
        /\ scriptPc[c] = "decided" /\ OwnDecision(reaction[c], c)
        /\ scriptPc[d] = "waiting" /\ discarded[d] /\ reaction[d] = NoReaction
        /\ ENABLED ScriptDiscard(d, reaction[c])

\* run_script has handed the client's outcome to the worker.
Returned(c) == workerPc[c] \in {"returned", "locked1", "counted", "locked2", "done"}

\* C15 as stated: when the outcome of a posted request is returned to the
\* worker, the message already shows the terminal state the request
\* reached: APPROVED or REJECTED after a decision, TIMEOUT when the request
\* ended because nobody decided in time.
C15_EditedBeforeReturn ==
    \A c \in Clients :
        Returned(c) /\ embed[c] # "none" =>
            /\ reaction[c].emoji = APPROVE_EMOJI => embed[c] = "APPROVED"
            /\ reaction[c].emoji = REJECT_EMOJI => embed[c] = "REJECTED"
            /\ approval_result[c].error = "timeout" => embed[c] = "TIMEOUT"
            /\ scriptPc[c] = "killed" /\ reaction[c] = NoReaction => embed[c] = "TIMEOUT"

\* C16 as stated: the script's 24-hour wait_for timeout is the only timer
\* that can end a client's approval wait; the orchestrator has no ceiling
\* of its own and never ends a script.
C16_Original ==
    \A c \in Clients :
        /\ scriptPc[c] # "killed"
        /\ workerPc[c] = "requesting" => ~ENABLED RunScriptTimeout(c)

\* C16 as amended: two timers can end a client's approval wait, wait_for's
\* inside the approval script and run_script's own on the orchestrator
\* side.  The orchestrator's timer can end the wait of any script that has
\* not exited; the script it ends is killed, its result is a failure and
\* the client is recorded as script_error.  A wait ends in no other way
\* than by the script's exit, by that timer, or by a failure to start the
\* script.
C16_TwoTimers ==
    \A c \in Clients :
        /\ workerPc[c] = "requesting" /\ scriptPc[c] # "exited" =>
              ENABLED RunScriptTimeout(c)
        /\ Returned(c) => scriptPc[c] \in {"none", "exited", "killed"}
        /\ scriptPc[c] = "killed" =>
              /\ workerPc[c] # "requesting"
              /\ ~discord_result[c].success
              /\ status[c] \in {"none", "script_error"}
              /\ Finished(c) => status[c] = "script_error"
        /\ approval_result[c].error = "timeout" =>
              reaction[c] = NoReaction /\ ~approval_result[c].approved

\* C16 witness: one client's wait was ended by the orchestrator's timer
\* while its request was pending, another's by the script's own timeout.
C16_Witness ==
    \E c, d \in Submitted :
        /\ Finished(c) /\ scriptPc[c] = "killed" /\ embed[c] = "PENDING"
        /\ Finished(d) /\ scriptPc[d] = "exited" /\ TimedOut(d)

\* Workers whose exception the drain loop has recorded, and those it has
\* counted in errors so far.
Handled == {c \in Submitted : workerPc[c] = "faulted" /\ c \in drained}
HandledErrors == Cardinality(Handled) + (IF mainPc = "counting" THEN 1 ELSE 0)
\* Workers that took an error branch themselves, and those that ran to
\* their end.
CountedErrors ==
    {c \in Submitted : workerPc[c] \in {"counted", "locked2", "done"}
                           /\ CounterOf(status[c]) = "errors"}
Done == {c \in Submitted : Finished(c)}

\* C17: a worker that raises is caught by the drain loop and recorded as
\* one error and one processed; the loop goes on with the remaining
\* workers and the report is still produced, with every raised worker
\* counted; no step of main() and no worker's exception changes another
\* worker or its script.
C17_FaultIsCounted ==
    /\ [](/\ shared_results.errors = Cardinality(CountedErrors) + HandledErrors
          /\ shared_results.processed = Cardinality(Done) + Cardinality(Handled)
          /\ Len(shared_results.client_results) = Cardinality(Done)
          /\ \A c \in Submitted \ drained :
                workerPc[c] = "faulted" /\ mainPc = "draining" /\ results_lock = Free
                    => ENABLED MainCatch(c)
          /\ mainPc \in {"locked", "counting"} =>
                results_lock = MainThread /\ workerPc[catching] = "faulted"
          /\ (mainPc = "draining" /\ drained = Submitted) => ENABLED MainReport
          /\ Reported =>
                \A c \in Submitted : workerPc[c] = "faulted" => c \in Handled)
    /\ [][/\ (mainPc \in {"draining", "locked", "counting"}
                  /\ (mainPc' # mainPc \/ drained' # drained)) =>
                 UNCHANGED <<workerVars, scriptVars>>
           /\ \A c \in Clients :
                 workerPc[c] # "faulted" /\ workerPc'[c] = "faulted" =>
                     \A d \in Clients \ {c} :
                         UNCHANGED <<workerPc[d], discord_result[d], status[d],
                                     scriptPc[d], sendPc[d], embed[d]>>]_vars

\* C17 witness: the report of a run in which one worker raised after its
\* request had returned and was recorded by the drain loop before the other
\* worker, rejected by a human, had finished.
C17_Witness ==
    /\ Reported
    /\ final_results.errors = 1
    /\ final_results.processed = MaxClients
    /\ \E c, d \in Submitted :
          /\ workerPc[c] = "faulted" /\ ~sink_raised[c] /\ scriptPc[c] = "exited"
          /\ Finished(d) /\ Rejected(d) /\ status[d] = "rejected"

IsPrefix(a, b) == Len(a) <= Len(b) /\ SubSeq(b, 1, Len(a)) = a
Succeeded(send) == send.ok
\* The updates the bot thread has tried to send, and those that arrived in
\* the channel, in order.
Attempted == [i \in 1..Len(sends) |-> sends[i].update]
Arrived ==
    [i \in 1..Len(SelectSeq(sends, Succeeded)) |-> SelectSeq(sends, Succeeded)[i].update]

\* C18 as stated: once the monitor is connected and on_ready has returned,
\* every update queued before the connection has arrived in the channel,
\* in submission order, each exactly once.
C18_Original ==
    channel = "found" /\ botPc \in {"flushed", "idle"} => IsPrefix(buffered, Arrived)

\* C18 as amended: updates queued before the connection stay in the queue
\* until on_ready flushes it; the flush, which runs only if the startup
\* message could be sent, sends each queued update once, in submission
\* order, and empties the queue.  An update whose send fails is dropped, so
\* what arrives is a part of what was buffered, in submission order, each
\* at most once.
C18_FlushInOrder ==
    /\ IsPrefix(buffered, queued)
    /\ IsPrefix(Attempted, queued)
    /\ \A i, j \in 1..Len(Arrived) : i < j => Arrived[i].id < Arrived[j].id
    /\ \A i \in 1..Len(Arrived) : \E j \in 1..Len(queued) : queued[j] = Arrived[i]
    /\ botPc \in {"off", "connecting", "startup", "ready", "idle"} =>
          sends = <<>> /\ message_queue = queued
    /\ botPc = "flushed" =>
          /\ IsPrefix(buffered, Attempted)
          /\ \A i \in 1..Len(message_queue) : message_queue[i].id > Len(sends)

\* C18 witness: the flush is over; of two updates queued before the
\* connection the first was dropped because its send failed, the second
\* arrived.
C18_Witness ==
    /\ botPc = "flushed"
    /\ Len(buffered) >= 2
    /\ ~sends[1].ok /\ sends[2].ok
    /\ Arrived = <<buffered[2]>>

\* C19 as stated: on a monitor whose bot connected, found the channel and
\* flushed, every update queued, before or after the connection, has been
\* sent by the time the monitor is stopped; the summary in particular.
C19_EveryUpdateSent ==
    monitorPc = "stopped" /\ channel = "found" /\ botPc = "flushed" =>
        /\ Attempted = queued
        /\ \E i \in 1..Len(sends) : sends[i].update.kind = "summary"

\* The client's approval script ran to its end without an error and printed
\* its result, and the worker recorded it.
CleanRun(c) ==
    /\ RanToEnd(c)
    /\ approval_result[c].error = "None"
    /\ process[c].stdout = ResultOutput(approval_result[c])
\* A human approved and the email went out; a human rejected.
ApprovedAndSent(c) == CleanRun(c) /\ ApprovedBySignal(c) /\ sendPc[c] = "sent"
RejectedByHuman(c) ==
    CleanRun(c) /\ reaction[c].emoji = REJECT_EMOJI /\ sendPc[c] = "none"

Appended(c) == workerPc[c] = "done"

\* C21 as stated: within one worker the request comes before the send and
\* the send before the report.  An email script runs only for a client
\* whose request was posted, and a client's result is appended only when
\* no send attempt for that client is still going on.
C21_RequestSendReport ==
    \A c \in Clients :
        /\ sendPc[c] # "none" => embed[c] # "none" /\ scriptPc[c] # "none"
        /\ Returned(c) \/ Appended(c) => workerPc[c] # "submitted"
        /\ Appended(c) => sendPc[c] \in {"none", "sent", "failed"}

\* The approval request of client c is pending: posted and not yet decided.
Pending(c) == Running(c) /\ scriptPc[c] \in {"posted", "waiting"}

\* C22: once the tasks are submitted there is one worker per client of
\* the list and none for anybody else, and a worker that has not issued
\* its request yet can issue it whatever the other workers are doing.
C22_AllRequestsConcurrent ==
    /\ mainPc \in {"draining", "locked", "counting", "exited"}
          => \A c \in Clients : (workerPc[c] # "idle") <=> (c \in Submitted)
    /\ \A c \in Clients :
          workerPc[c] = "submitted" => ENABLED WorkerRequest(c)

\* Every client of a full list has its request pending at the same time.
C22_Witness ==
    /\ Len(clients) = MaxClients
    /\ \A c \in Clients : Pending(c) /\ scriptPc[c] = "waiting"

\* C23: the report's client_results is the shared list as the workers
\* left it; every step leaves the results already in the list where they
\* are and as they are, and adds at most one result, at the end, which is
\* the result of the worker that completes in that step.
C23_CompletionOrder ==
    /\ [](Reported =>
            final_results.client_results = shared_results.client_results)
    /\ [][/\ IsPrefix(shared_results.client_results,
                      shared_results'.client_results)
          /\ Len(shared_results'.client_results)
                <= Len(shared_results.client_results) + 1
          /\ \A c \in Clients :
                workerPc[c] # "done" /\ workerPc'[c] = "done" =>
                    shared_results'.client_results =
                        Append(shared_results.client_results, ClientResult(c)')
          /\ Reported => final_results' = final_results]_vars

\* A report of two results in which the client submitted second comes
\* first, because its worker completed first.
C23_Witness ==
    /\ Reported
    /\ Len(final_results.client_results) = 2
    /\ final_results.client_results[1] = ClientResult(2)
    /\ final_results.client_results[2] = ClientResult(1)
    /\ clients[1] # clients[2]

\* The threads inside a "with results_lock" block.
InCritical ==
    {c \in Clients : workerPc[c] \in {"locked1", "locked2"}}
        \cup (IF mainPc \in {"locked", "counting"} THEN {MainThread} ELSE {})
\* The workers that have incremented the counter named k.
Counted(k) ==
    {c \in Submitted : workerPc[c] \in {"counted", "locked2", "done"}
                           /\ CounterOf(status[c]) = k}
\* The thread holding the lock takes a step.
HolderSteps ==
    \/ results_lock \in Clients /\ workerPc'[results_lock] # workerPc[results_lock]
    \/ results_lock = MainThread /\ mainPc' # mainPc

\* C24: the threads inside a critical section are exactly the holder of
\* the lock, so at most one; the holder's approval script has ended; each
\* counter equals the number of increments made, so none is lost; the
\* counters and the list change only in a step of the thread that holds
\* the lock; and no step of the holder makes a sink call or touches an
\* approval script.
C24_LockDiscipline ==
    /\ [](/\ InCritical = (IF results_lock = Free THEN {} ELSE {results_lock})
          /\ \A c \in InCritical \cap Clients :
                scriptPc[c] \in {"none", "exited", "killed"}
          /\ shared_results.approved = Cardinality(Counted("approved"))
          /\ shared_results.rejected = Cardinality(Counted("rejected"))
          /\ shared_results.errors = Cardinality(Counted("errors")) + HandledErrors
          /\ shared_results.processed = Cardinality(Done) + Cardinality(Handled)
          /\ Len(shared_results.client_results) = Cardinality(Done))
    /\ [][/\ shared_results' # shared_results =>
                mainPc = "fetched" \/ (results_lock # Free /\ HolderSteps)
          /\ results_lock # Free /\ HolderSteps =>
                UNCHANGED <<client_updates, last_status, sink_raised,
                            discord_result, scriptVars>>]_vars

\* Two workers are at their first critical section at once: one holds the
\* lock, the other waits for it with its update already handed over.
C24_Witness ==
    /\ workerPc[1] = "locked1"
    /\ workerPc[2] = "returned"
    /\ ~ENABLED WorkerAcquireCount(2)
    /\ shared_results.approved + shared_results.rejected + shared_results.errors = 0

(***************************************************************************)
(* The campaign with every thread scheduled.                               *)
(***************************************************************************)
\* A step of the main thread.
MainStep ==
    \/ Fetch
    \/ MainSubmit
    \/ \E c \in Clients : MainDrain(c) \/ MainCatch(c)
    \/ MainCountError
    \/ MainCountProcessed
    \/ MainReport

\* A step of the pool thread that runs client c's task.
WorkerStep(c) ==
    \/ WorkerRequest(c) \/ WorkerRequestFails(c)
    \/ RunScriptReturn(c) \/ RunScriptTimeout(c)
    \/ WorkerFault(c) \/ SinkRaises(c)
    \/ WorkerAcquireCount(c) \/ WorkerCount(c)
    \/ WorkerAcquireAppend(c) \/ WorkerAppend(c)

\* A step of the orchestrator process.
OrchestratorStep == MainStep \/ \E c \in Clients : WorkerStep(c)

\* As long as one of the orchestrator's threads can take a step the
\* interpreter runs one of them, and a blocking subprocess.run returns at
\* the script's exit or at its timer.  No thread is promised a turn before
\* another, and nothing is assumed of Discord, of the mail server or of
\* the humans.
FairSpec == Spec /\ WF_vars(OrchestratorStep)

\* C25: every run exits, and a run with a non-empty client list has
\* printed the report when it does; the report is built when every
\* future is drained and every worker has ended, from the counters as
\* they are then; and once it is built neither the counters nor the
\* report change again, so there is one report.
C25_TerminatesWithOneReport ==
    /\ <>(mainPc = "exited")
    /\ [](/\ mainPc = "exited" /\ Len(clients) > 0 => Reported
          /\ Reported =>
                /\ drained = Submitted
                /\ \A c \in Submitted : workerPc[c] \in {"done", "faulted"}
                /\ results_lock = Free
                /\ final_results = Report(shared_results))
    /\ [][/\ Reported => UNCHANGED <<shared_results, final_results>>
          /\ final_results' # final_results => ~Reported /\ Reported']_vars

\* The report of a full list is out and the process has exited.
C25_Witness ==
    /\ Reported
    /\ mainPc = "exited"
    /\ final_results.total_clients = MaxClients
    /\ final_results.processed = MaxClients

(***************************************************************************)
(* The approval scripts with humans who react whenever they like.          *)
(***************************************************************************)
\* Lines 257-280: a reaction_add event that check_reaction would accept is
\* dispatched after channel.send has published the message and before
\* wait_for has registered its listener, while the script awaits its two
\* add_reaction calls.  No listener is there to take it: it is dropped.
ReactionUnheard(c, ev) ==
    /\ Running(c)
    /\ scriptPc[c] = "posted"
    /\ check_reaction(ev, c)
    /\ missed' = [missed EXCEPT ![c] = TRUE]
    /\ UNCHANGED <<campaignVars, sinkVars, toolVars, client_updates, send_attempts>>

ReactionNext ==
    \/ Fetch
    \/ MainSubmit
    \/ \E c \in Clients : WorkerRequest(c)
    \/ \E c \in Clients : RunScriptReturn(c)
    \/ \E c \in Clients : RunScriptTimeout(c)
    \/ \E c \in Clients : ScriptCrash(c)
    \/ \E c \in Clients : ScriptChannelMissing(c)
    \/ \E c \in Clients : ScriptPost(c)
    \/ \E c \in Clients : ScriptPostError(c)
    \/ \E c \in Clients : ScriptWait(c)
    \/ \E c \in Clients, ev \in Reactions : ReactionUnheard(c, ev)
    \/ \E c \in Clients, ev \in Reactions : ScriptReaction(c, ev)
    \/ \E c \in Clients, ev \in Reactions : ScriptDiscard(c, ev)
    \/ \E c \in Clients : ScriptTimeout(c)
    \/ \E c \in Clients : ScriptEdit(c)
    \/ \E c \in Clients : ScriptEditError(c)
    \/ \E c \in Clients, ok \in BOOLEAN : SendEmail(c, ok)
    \/ \E c \in Clients : ScriptEnd(c)

ReactionSpec == Init /\ [][ReactionNext]_vars

\* A human has put an approve or reject reaction on client c's message.
Reacted(c) == missed[c] \/ reaction[c] # NoReaction

\* C26 as stated: a request on whose message a human has placed an
\* approve or reject reaction, at any moment after the message was
\* published, does not end as a timeout.
C26_ReactionAlwaysResolves ==
    \A c \in Clients : Reacted(c) => approval_result[c].error # "timeout"

\* The flush has a queued update still to send to the channel.
Sending == botPc = "flushing" /\ cursor <= Len(message_queue)

\* C27 as stated: a sink call never waits for a message to be sent.  While
\* the monitor takes calls and the bot thread is sending queued updates to
\* the channel, a call (here the summary, which no bound of the model holds
\* back) can append its update and return.
C27_SinkCallNeverWaits ==
    monitorPc = "running" /\ Sending => ENABLED send_summary_report

(***************************************************************************)
(* The campaign with an operator who may interrupt it (lines 362-370).     *)
(***************************************************************************)
\* The operator's signal reaches the process: KeyboardInterrupt is raised in
\* the main thread, wherever main() is.  No except clause of main() takes it
\* (line 310 catches Exception only); a with results_lock block it leaves
\* releases the lock.
Interrupt ==
    /\ mainPc \in {"start", "fetched", "draining", "locked", "counting"}
    /\ mainPc' = "interrupted"
    /\ results_lock' = IF results_lock = MainThread THEN Free ELSE results_lock
    /\ UNCHANGED <<exitCode, fetchVars, shared_results, drained, catching,
                   final_results, last_status, workerVars, scriptVars>>
    /\ UNCHANGED <<sinkVars, toolVars, logVars>>

\* The workers the pool has started and that have not ended.
Unresolved == {c \in Submitted : workerPc[c] \notin {"idle", "done", "faulted"}}

\* Lines 282 and 365-370: the exception leaves the with ThreadPoolExecutor
\* block, whose exit is shutdown(wait=True): it joins every pool thread.
\* Only then does the exception reach the handler, which submits the
\* 'Campaign Stopped' status, stops the monitor and exits with status 130.
InterruptExit ==
    /\ mainPc = "interrupted"
    /\ Unresolved = {}
    /\ last_status' = "Campaign Stopped"
    /\ Exit(EXIT_INTERRUPT)
    /\ UNCHANGED <<fetchVars, shared_results, results_lock, drained, catching,
                   final_results, workerVars, scriptVars>>
    /\ UNCHANGED <<sinkVars, toolVars, logVars>>

InterruptNext == Next \/ Interrupt \/ InterruptExit

InterruptSpec == Init /\ [][InterruptNext]_vars

\* C28 as stated: an interrupted run aborts without waiting for pending
\* workers.  When the interrupt has been raised while some worker's
\* request is pending, the handler can run: submit 'Campaign Stopped' and
\* exit with status 130.
C28_InterruptAbortsAtOnce ==
    mainPc = "interrupted" /\ (\E c \in Clients : Pending(c))
        => ENABLED InterruptExit

\* An update's status names the same outcome as a counter.
Agrees(update, counter) ==
    \/ update = "approved" /\ counter = "approved"
    \/ update = "rejected" /\ counter = "rejected"
    \/ update = "error" /\ counter = "errors"
\* main() has taken the exception of worker c from its future.
Caught(c) == c \in drained \/ (catching = c /\ mainPc \in {"locked", "counting"})
\* The terminal updates among a client's updates.
Terminals(u) == SelectSeq(u, LAMBDA x : x # "processing")

\* C29: with the sink present, a worker that has issued its request has
\* submitted one 'processing' update, as its first; a worker that has
\* taken a branch has submitted one terminal update after it, and that
\* update names the outcome of the status written to the ClientResult and
\* of the counter incremented; a worker that raised submitted no terminal
\* update itself and gets one 'error' update from main(), which counts an
\* error.  Without the sink nothing is submitted.
C29_UpdatesMatchOutcome ==
    \A c \in Clients :
        LET u == client_updates[c]
        IN  /\ ~MONITORING_ENABLED => u = <<>>
            /\ MONITORING_ENABLED =>
                /\ workerPc[c] \in {"idle", "submitted"} => u = <<>>
                /\ workerPc[c] \in {"requesting", "returned"} => u = <<"processing">>
                /\ workerPc[c] = "locked1" =>
                      /\ Len(u) = 2 /\ u[1] = "processing"
                      /\ Agrees(u[2], CounterOf(StatusOf(discord_result[c])))
                /\ workerPc[c] \in {"counted", "locked2", "done"} =>
                      /\ Len(u) = 2 /\ u[1] = "processing"
                      /\ Agrees(u[2], CounterOf(status[c]))
                      /\ c \in Counted(CounterOf(status[c]))
                /\ Appended(c) =>
                      \E i \in 1..Len(shared_results.client_results) :
                          /\ shared_results.client_results[i] = ClientResult(c)
                          /\ Agrees(u[2], CounterOf(
                                 shared_results.client_results[i].status))
                /\ workerPc[c] = "faulted" =>
                      /\ Len(SelectSeq(u, LAMBDA x : x = "processing")) <= 1
                      /\ Terminals(u) = IF Caught(c) THEN <<"error">> ELSE <<>>

\* The sink is present and a report is out in which one client was approved
\* and another was not, each with its two updates.
C29_Witness ==
    /\ MONITORING_ENABLED
    /\ Reported
    /\ \E c, d \in Submitted :
          /\ Appended(c) /\ client_updates[c] = <<"processing", "approved">>
          /\ Appended(d) /\ status[d] = "script_error"
          /\ client_updates[d] = <<"processing", "error">>

\* C30: no client has more than one send attempt, the attempt is there
\* exactly when the email script was started, which is for approved
\* clients only, and an attempt that has ended, sent or failed, is never
\* started again.
C30_AtMostOneSend ==
    /\ [](\A c \in Clients :
            /\ send_attempts[c] <= 1
            /\ send_attempts[c] = (IF sendPc[c] = "none" THEN 0 ELSE 1)
            /\ send_attempts[c] = 1 => approval_result[c].approved)
    /\ [][\A c \in Clients :
            /\ send_attempts'[c] >= send_attempts[c]
            /\ sendPc[c] \in {"sent", "failed"} =>
                  sendPc'[c] = sendPc[c] /\ send_attempts'[c] = send_attempts[c]
            /\ sendPc[c] = "running" => sendPc'[c] # "none"]_vars

\* A send has failed and the client's worker has ended with one attempt.
C30_Witness ==
    \E c \in Clients :
        sendPc[c] = "failed" /\ send_attempts[c] = 1 /\ Appended(c)

(***************************************************************************)
(* scripts/get_file_google_drive.py: the client source (lines 111-171).    *)
(***************************************************************************)
\* What pd.read_excel puts in a cell: NaN for an empty cell, or a string,
\* which may be empty, blank or a date.
NaN == "NaN"
Cells == {NaN, "", " ", "2025-01-01"}

\* Series.isna().
isna(v) == v = NaN

\* Line 128 without the comparison with the empty string.
IsContactableOnlyNull(v) == isna(v)

\* Line 128: isna() | (== "").
IsContactable(v) == isna(v) \/ v = ""

\* The sheets that can be read: with or without a 'Last Contacted' column.
\* rows[i] is row i's cell in that column, or in some other column when the
\* sheet has no such column.
Sheets ==
    [has_last_contacted_column : BOOLEAN,
     rows : UNION {[1..n -> Cells] : n \in 0..MaxRows}]

\* The rows of the frame with their index.
Frame(sheet) ==
    [i \in 1..Len(sheet.rows) |-> [index |-> i, cell |-> sheet.rows[i]]]

\* Lines 121-128: contactable_clients.
Contactable(sheet) ==
    IF ~sheet.has_last_contacted_column
    THEN Frame(sheet)
    ELSE SelectSeq(Frame(sheet), LAMBDA r : IsContactable(r.cell))

\* Lines 137-145: NaN becomes None, the frame is written as JSON records
\* and parsed back; None is printed as null.
Record(r) == [index |-> r.index, cell |-> IF isna(r.cell) THEN "null" ELSE r.cell]
Records(frame) == [i \in 1..Len(frame) |-> Record(frame[i])]

\* Lines 148-167: the response object printed between the markers.
Response(sheet) ==
    [success |-> TRUE, printed |-> TRUE,
     total_rows |-> Len(sheet.rows),
     contactable_clients |-> Len(Contactable(sheet)),
     has_last_contacted_column |-> sheet.has_last_contacted_column,
     data |-> Records(Contactable(sheet))]

\* Lines 97-118: the file is downloaded and read.
ReadExcel(sheet) ==
    /\ df = NoSheet
    /\ ~response.printed
    /\ sheet # NoSheet
    /\ df' = sheet
    /\ UNCHANGED response
    /\ UNCHANGED <<campaignVars, sinkVars, logVars, sheetVars, trackerVars,
                   senderVars, managerVars>>

\* Lines 120-167: the rows are filtered and the response printed.
PrintResponse ==
    /\ ~response.printed
    /\ response' = Response(df)
    /\ UNCHANGED df
    /\ UNCHANGED <<campaignVars, sinkVars, logVars, sheetVars, trackerVars,
                   senderVars, managerVars>>

SourceNext ==
    \/ \E sheet \in Sheets : ReadExcel(sheet)
    \/ PrintResponse

SourceSpec == Init /\ [][SourceNext]_vars

\* The rows of the sheet that the response returns.
Returned_rows == {response.data[i].index : i \in 1..Len(response.data)}

\* C31: once the response is printed, with a 'Last Contacted' column the
\* rows returned are exactly those whose cell is NaN or the empty string,
\* without the column all rows are returned; each row is returned once,
\* in the sheet's order, and contactable_clients is the number of records.
C31_ReturnsExactlyUncontacted ==
    response.printed =>
        /\ \A i \in 1..Len(df.rows) :
              i \in Returned_rows <=>
                  (~df.has_last_contacted_column \/ df.rows[i] \in {NaN, ""})
        /\ Returned_rows \subseteq 1..Len(df.rows)
        /\ \A i, j \in 1..Len(response.data) :
              i < j => response.data[i].index < response.data[j].index
        /\ response.contactable_clients = Len(response.data)
        /\ response.has_last_contacted_column = df.has_last_contacted_column

\* A sheet with the column whose rows hold an empty cell, an empty string
\* and a date: the first two are returned, the third is not.
C31_Witness ==
    /\ response.printed
    /\ df.has_last_contacted_column
    /\ df.rows = <<NaN, "", "2025-01-01">>
    /\ response.contactable_clients = 2
    /\ Returned_rows = {1, 2}

(***************************************************************************)
(* scripts/google_sheets_updater.py: find_client_row (lines 52-88).        *)
(***************************************************************************)
Emails == {"a@x", "b@x"}

\* Line 71: 'email' in header.lower().
ContainsEmail(header) == header \in {"Email", "EMAIL ADDRESS"}

\* Header rows of the spreadsheet.
HeaderRows ==
    {<<"Name", "Email">>, <<"Email", "Name", "Phone">>, <<"Name", "Phone">>,
     <<"Name", "Phone", "Notes", "EMAIL ADDRESS">>, <<"EMAIL ADDRESS">>}

\* Data rows as values().get returns them: trailing empty cells are left
\* out, so a row can be shorter than the header row.
DataRows == UNION {[1..n -> Emails] : n \in 0..MaxCols}

\* What values().get returns for the range A:Z: nothing, or the header
\* row followed by the data rows.
SheetValues ==
    {<<>>} \cup
    {<<h>> \o rows : h \in HeaderRows,
                     rows \in UNION {[1..n -> DataRows] : n \in 0..MaxDataRows}}

\* Lines 69-73: the 0-based index of the first header that contains
\* 'email', or -1 for None.
EmailColIndex(headers) ==
    LET hits == {i \in 1..Len(headers) : ContainsEmail(headers[i])}
    IN  IF hits = {} THEN -1
        ELSE (CHOOSE i \in hits : \A j \in hits : i <= j) - 1

\* Line 81: row_idx < len(row) and row[email_col_index] == client_email.
\* The subscript raises IndexError when the row has no such cell.
RowMatches(row, row_idx, col, email) ==
    IF ~(row_idx < Len(row)) THEN "next"
    ELSE IF ~(col < Len(row)) THEN "raise"
    ELSE IF row[col + 1] = email THEN "match"
    ELSE "next"

\* Lines 80-88: the loop over values[1:] with row_idx starting at 2; the
\* exception handler returns None.
RECURSIVE SearchFrom(_, _, _, _)
SearchFrom(v, row_idx, col, email) ==
    IF row_idx > Len(v) THEN None
    ELSE LET verdict == RowMatches(v[row_idx], row_idx, col, email)
         IN  IF verdict = "match" THEN row_idx
             ELSE IF verdict = "raise" THEN None
             ELSE SearchFrom(v, row_idx + 1, col, email)

\* Lines 61-84.
FindClientRow(v, email) ==
    IF v = <<>> THEN None
    ELSE IF EmailColIndex(v[1]) = -1 THEN None
    ELSE SearchFrom(v, 2, EmailColIndex(v[1]), email)

\* find_client_row is called for a client on a spreadsheet.
find_client_row(v, email) ==
    /\ client_row = NotCalled
    /\ values' = v
    /\ client_email' = email
    /\ client_row' = FindClientRow(v, email)
    /\ UNCHANGED <<campaignVars, sinkVars, logVars, sourceVars, trackerVars,
                   senderVars, managerVars>>

LookupNext == \E v \in SheetValues, email \in Emails : find_client_row(v, email)

LookupSpec == Init /\ [][LookupNext]_vars

\* The spreadsheet rows whose cell in the email column is the client's.
MatchingRows ==
    IF values = <<>> \/ EmailColIndex(values[1]) = -1 THEN {}
    ELSE {r \in 2..Len(values) :
            /\ EmailColIndex(values[1]) < Len(values[r])
            /\ values[r][EmailColIndex(values[1]) + 1] = client_email}

\* C32 as stated: when find_client_row has returned, it has returned the
\* number of a row whose email cell is the client's if there is one, and
\* None only if there is none.
C32_FindsMatchingRow ==
    client_row # NotCalled =>
        /\ client_row # None => client_row \in MatchingRows
        /\ MatchingRows # {} => client_row \in MatchingRows

(***************************************************************************)
(* scripts/email_tracker.py: the tracking table and the tracking requests  *)
(* (lines 60-137).                                                         *)
(***************************************************************************)
Events == {"open", "click", "bounce"}

\* Lines 67-70: the row INSERT creates; the other columns take their
\* defaults.
NewEntry == [open_count |-> 0, click_count |-> 0, opened_date |-> "NULL",
             clicked_date |-> "NULL", bounce_date |-> "NULL"]

\* Lines 67-72: the table after the INSERT, committed.
Inserted(table, T) ==
    [k \in DOMAIN table \cup {T} |-> IF k = T THEN NewEntry ELSE table[k]]

\* Lines 82-99: the row after the UPDATE of an event type.
Updated(row, event_type) ==
    CASE event_type = "open" ->
            [row EXCEPT !.opened_date = "now", !.open_count = @ + 1]
      [] event_type = "click" ->
            [row EXCEPT !.clicked_date = "now", !.click_count = @ + 1]
      [] event_type = "bounce" -> [row EXCEPT !.bounce_date = "now"]
      [] OTHER -> row

\* Lines 77-102 without the WHERE clause.
update_every_row(table, tracking_id, event_type) ==
    [k \in DOMAIN table |-> Updated(table[k], event_type)]

\* Lines 77-102: UPDATE ... WHERE tracking_id = ?, one statement in its
\* own connection, committed.
update_tracking_event(table, tracking_id, event_type) ==
    [k \in DOMAIN table |->
        IF k = tracking_id THEN Updated(table[k], event_type) ELSE table[k]]

\* The number of requests received so far.
Received ==
    LET n(T) == requested[T].open + requested[T].click + requested[T].bounce
    IN  n("t1") + n("t2")

\* Lines 60-75: a row is inserted under a fresh uuid4, which nobody can
\* have requested before.
create_tracking_entry(T) ==
    /\ T \notin DOMAIN email_tracking
    /\ requested[T] = NoRequests
    /\ email_tracking' = Inserted(email_tracking, T)
    /\ UNCHANGED requested
    /\ UNCHANGED <<campaignVars, sinkVars, logVars, sourceVars, sheetVars,
                   senderVars, managerVars>>

\* Lines 104-137: track_open, track_click and track_bounce, for whatever
\* identifier the request's path carries.
track(T, event_type) ==
    /\ Received < MaxRequests
    /\ email_tracking' = update_tracking_event(email_tracking, T, event_type)
    /\ requested' = [requested EXCEPT ![T][event_type] = @ + 1]
    /\ UNCHANGED <<campaignVars, sinkVars, logVars, sourceVars, sheetVars,
                   senderVars, managerVars>>

TrackerNext ==
    \/ \E T \in Tids : create_tracking_entry(T)
    \/ \E T \in Tids, event_type \in Events : track(T, event_type)

TrackerSpec == Init /\ [][TrackerNext]_vars

\* The request for identifier T that a step serves, if any.
Serves(T, event_type) == requested'[T][event_type] = requested[T][event_type] + 1

\* C33: for every entry, open_count and click_count are the numbers of
\* open and click requests received for its identifier and bounce_date is
\* set exactly when a bounce was requested; and a request for T changes
\* the entry keyed by T by its one event and leaves every other entry,
\* and the set of entries, as they were.
C33_OneEventPerRequest ==
    /\ [](\A T \in DOMAIN email_tracking :
            /\ email_tracking[T].open_count = requested[T].open
            /\ email_tracking[T].click_count = requested[T].click
            /\ (email_tracking[T].bounce_date # "NULL") <=> (requested[T].bounce > 0))
    /\ [][\A T \in Tids, event_type \in Events :
            Serves(T, event_type) =>
                /\ DOMAIN email_tracking' = DOMAIN email_tracking
                /\ \A k \in DOMAIN email_tracking \ {T} :
                      email_tracking'[k] = email_tracking[k]
                /\ T \in DOMAIN email_tracking =>
                      LET old == email_tracking[T]
                          new == email_tracking'[T]
                      IN  /\ new.open_count = old.open_count
                                + (IF event_type = "open" THEN 1 ELSE 0)
                          /\ new.click_count = old.click_count
                                + (IF event_type = "click" THEN 1 ELSE 0)
                          /\ event_type # "bounce" =>
                                new.bounce_date = old.bounce_date
                          /\ event_type = "bounce" => new.bounce_date = "now"]_vars

\* Two entries: one opened twice, the other clicked once and bounced.
C33_Witness ==
    /\ DOMAIN email_tracking = Tids
    /\ email_tracking["t1"].open_count = 2
    /\ email_tracking["t1"].click_count = 0
    /\ email_tracking["t2"].open_count = 0
    /\ email_tracking["t2"].click_count = 1
    /\ email_tracking["t2"].bounce_date = "now"

\* C34 as stated: a client whose result is recorded with a status other
\* than approved_and_sent has had no email sent, whichever of the human
\* decision, the script's timer and the orchestrator's timer came first.
C34_SentOnlyIfRecordedSent ==
    \A c \in Clients :
        Appended(c) /\ status[c] # "approved_and_sent" => sendPc[c] # "sent"

\* The number of results of a list whose status is one of a set.
WithStatus(results, statuses) ==
    Cardinality({i \in 1..Len(results) : results[i].status \in statuses})

\* C35 as stated: in the report, approved, rejected and errors are the
\* numbers of results with status approved_and_sent, with status rejected
\* and with status error or script_error.
C35_CountersMatchResults ==
    Reported =>
        /\ final_results.approved =
              WithStatus(final_results.client_results, {"approved_and_sent"})
        /\ final_results.rejected =
              WithStatus(final_results.client_results, {"rejected"})
        /\ final_results.errors =
              WithStatus(final_results.client_results, {"error", "script_error"})

(***************************************************************************)
(* scripts/send_email.py: one send_email call (lines 33-135), with         *)
(* update_email_tracking of scripts/google_sheets_updater.py (lines        *)
(* 90-229) on the clients' spreadsheet.                                    *)
(***************************************************************************)
\* The header rows of the clients' spreadsheet.
ContactHeaders ==
    {<<"Email", "Last Contacted">>, <<"Name", "Email", "Last Contacted">>,
     <<"Name", "Email", "Phone", "Last Contacted">>, <<"Name", "Email", "Phone">>}

\* What a cell of a column can hold; "" is an empty cell.
ColumnCells(header) ==
    CASE header = "Name" -> {"n"}
      [] header = "Email" -> Emails
      [] header = "Phone" -> {"", "p"}
      [] OTHER -> {"", "2025-01-01"}

\* values().get leaves out the trailing empty cells of a row.
RECURSIVE Trim(_)
Trim(row) ==
    IF row = <<>> \/ row[Len(row)] # "" THEN row
    ELSE Trim(SubSeq(row, 1, Len(row) - 1))

\* The rows a header row admits, as values().get returns them.
RowsUnder(headers) ==
    {Trim(row) : row \in {r \in [1..Len(headers) -> Emails \cup {"n", "p", "", "2025-01-01"}] :
                              \A i \in 1..Len(headers) : r[i] \in ColumnCells(headers[i])}}

\* The clients' spreadsheets of the model: a header row and one or more
\* client rows.
ContactSheets ==
    UNION {{<<h>> \o rows :
              rows \in UNION {[1..n -> RowsUnder(h)] : n \in 1..MaxDataRows}} :
           h \in ContactHeaders}

\* Updater lines 132-135: the 0-based index of the column whose header
\* contains 'last contacted' (the last such column), or -1.
LastContactedIndex(headers) ==
    LET hits == {i \in 1..Len(headers) : headers[i] = "Last Contacted"}
    IN  IF hits = {} THEN -1
        ELSE (CHOOSE i \in hits : \A j \in hits : i >= j) - 1

\* The sheet after batchUpdate has written x to the cell of 0-based column
\* col in row number row; a shorter row grows by empty cells.
SetCell(v, row, col, x) ==
    [v EXCEPT ![row] =
        [i \in 1..(IF Len(@) > col + 1 THEN Len(@) ELSE col + 1) |->
            IF i = col + 1 THEN x
            ELSE IF i <= Len(@) THEN @[i] ELSE ""]]

\* Updater lines 116-225 once the service is there: the row is looked up
\* and the 'Last Contacted' cell, if the sheet has the column, is set to
\* the current date.  Without a row, or without a column to update, the
\* sheet stays as it is and the function returns False.
SheetAfterUpdate(v, email) ==
    IF FindClientRow(v, email) = None \/ LastContactedIndex(v[1]) = -1
    THEN v
    ELSE SetCell(v, FindClientRow(v, email), LastContactedIndex(v[1]), "2025-06-01")

\* The orchestrator's approved client is handed to send_email: the
\* spreadsheet is one of the model's and has a row of the client.
SendCall(v, email) ==
    /\ sendStep = "idle"
    /\ \E r \in 2..Len(v) : \E i \in 1..Len(v[r]) : v[r][i] = email
    /\ sendStep' = "called"
    /\ values' = v
    /\ client_email' = email
    /\ UNCHANGED <<client_row, sent_tracking_id, send_result>>
    /\ UNCHANGED <<campaignVars, sinkVars, logVars, sourceVars, trackerVars,
                   managerVars>>

\* Lines 50-54: the SMTP credentials are not configured.
SendNoCredentials ==
    /\ sendStep = "called"
    /\ sendStep' = "returned"
    /\ send_result' = [returned |-> TRUE, success |-> FALSE]
    /\ UNCHANGED sent_tracking_id
    /\ UNCHANGED <<campaignVars, sinkVars, logVars, sourceVars, sheetVars,
                   trackerVars, managerVars>>

\* Lines 57-60: with tracking enabled the tracking entry is created, under
\* a fresh identifier, before anything is sent.
SendTrack(T) ==
    /\ sendStep = "called"
    /\ T \notin DOMAIN email_tracking
    /\ email_tracking' = Inserted(email_tracking, T)
    /\ sent_tracking_id' = T
    /\ sendStep' = "composed"
    /\ UNCHANGED <<requested, send_result>>
    /\ UNCHANGED <<campaignVars, sinkVars, logVars, sourceVars, sheetVars,
                   managerVars>>

\* Lines 57-58 with enable_tracking false or the tracker not importable.
SendUntracked ==
    /\ sendStep = "called"
    /\ sendStep' = "composed"
    /\ UNCHANGED <<sent_tracking_id, send_result>>
    /\ UNCHANGED <<campaignVars, sinkVars, logVars, sourceVars, sheetVars,
                   trackerVars, managerVars>>

\* Lines 97-116 and 130-135: the message goes out, or connecting, logging
\* in or sending raises and the handler returns the error.
SendSmtp(ok) ==
    /\ sendStep = "composed"
    /\ IF ok
       THEN sendStep' = "mailed" /\ UNCHANGED send_result
       ELSE /\ sendStep' = "returned"
            /\ send_result' = [returned |-> TRUE, success |-> FALSE]
    /\ UNCHANGED sent_tracking_id
    /\ UNCHANGED <<campaignVars, sinkVars, logVars, sourceVars, sheetVars,
                   trackerVars, managerVars>>

\* Lines 118-128: with tracking, update_email_tracking is called and its
\* return value dropped; send_email returns success.  The updater either
\* gets its service and works on the sheet, or returns False before it
\* touches it (no spreadsheet id, no credentials, a request that raises).
SendUpdateSheet(service) ==
    /\ sendStep = "mailed"
    /\ IF sent_tracking_id # "None" /\ service
       THEN /\ client_row' = FindClientRow(values, client_email)
            /\ values' = SheetAfterUpdate(values, client_email)
       ELSE UNCHANGED <<values, client_row>>
    /\ sendStep' = "returned"
    /\ send_result' = [returned |-> TRUE, success |-> TRUE]
    /\ UNCHANGED <<client_email, sent_tracking_id>>
    /\ UNCHANGED <<campaignVars, sinkVars, logVars, sourceVars, trackerVars,
                   managerVars>>

SenderNext ==
    \/ \E v \in ContactSheets, email \in Emails : SendCall(v, email)
    \/ SendNoCredentials
    \/ \E T \in Tids : SendTrack(T)
    \/ SendUntracked
    \/ \E ok \in BOOLEAN : SendSmtp(ok)
    \/ \E service \in BOOLEAN : SendUpdateSheet(service)

SenderSpec == Init /\ [][SenderNext]_vars

\* The 'Last Contacted' cell of a row as the next fetch reads it: NaN when
\* the cell is empty or the row ends before it.
LastContactedCell(v, r) ==
    LET col == LastContactedIndex(v[1])
    IN  IF col < Len(v[r]) /\ v[r][col + 1] # "" THEN v[r][col + 1] ELSE NaN

\* The rows of the client that the next run's fetch selects again.
SelectedAgain ==
    {r \in 2..Len(values) :
        /\ \E i \in 1..Len(values[r]) : values[r][i] = client_email
        /\ LastContactedIndex(values[1]) # -1
        /\ IsContactable(LastContactedCell(values, r))}

\* C36 as stated: when send_email has returned success for a tracked send
\* to a client of a sheet that has the 'Last Contacted' column, the next
\* fetch selects no row of that client.
C36_ContactedOnce ==
    /\ send_result.returned /\ send_result.success
    /\ sent_tracking_id # "None"
    /\ LastContactedIndex(values[1]) # -1
    => SelectedAgain = {}

\* C37 as stated: when send_email has returned success = false, the
\* tracking table holds no entry that the call created.
C37_NoEntryWithoutDispatch ==
    send_result.returned /\ ~send_result.success
    => sent_tracking_id \notin DOMAIN email_tracking

(***************************************************************************)
(* scripts/tracking_manager.py: the 'start' and 'stop' commands, run one   *)
(* after the other, and the operating system's processes.                  *)
(***************************************************************************)
\* The pids under which a tracking server started by the manager runs.
Servers == {p \in Pids : processes[p] = "server"}

\* Lines 119-136, the result of is_server_running: the PID file exists
\* and os.kill(pid, 0) finds a process, whichever it is.
is_server_running == pid_file # NoFile /\ processes[pid_file] # "free"

\* The PID file in place was written by a start that then failed.
LeftByFailedStart == pid_source = "failed"

\* Lines 43-45: the tracking modules could not be imported.
StartUnavailable ==
    /\ command' = [name |-> "start", success |-> FALSE, target |-> "none",
                   stale |-> LeftByFailedStart]
    /\ UNCHANGED <<pid_file, pid_source, processes>>
    /\ UNCHANGED <<campaignVars, sinkVars, logVars, sourceVars, sheetVars,
                   trackerVars, senderVars>>

\* Lines 47-50: is_server_running is true, start reports the server as
\* running and starts nothing.
StartAlreadyRunning ==
    /\ is_server_running
    /\ command' = [name |-> "start", success |-> TRUE,
                   target |-> processes[pid_file], stale |-> LeftByFailedStart]
    /\ UNCHANGED <<pid_file, pid_source, processes>>
    /\ UNCHANGED <<campaignVars, sinkVars, logVars, sourceVars, sheetVars,
                   trackerVars, senderVars>>

\* Lines 47-84: is_server_running is false (and has removed a PID file of
\* a dead pid); the server is spawned under a free pid, the pid is written
\* to the PID file, and after three seconds the process is polled.  A
\* server that has exited by then makes start return False; the PID file
\* is left as written.
Start(p, alive) ==
    /\ ~is_server_running
    /\ processes[p] = "free"
    /\ pid_file' = p
    /\ pid_source' = IF alive THEN "started" ELSE "failed"
    /\ processes' = IF alive THEN [processes EXCEPT ![p] = "server"] ELSE processes
    /\ command' = [name |-> "start", success |-> alive, target |-> "none",
                   stale |-> FALSE]
    /\ UNCHANGED <<campaignVars, sinkVars, logVars, sourceVars, sheetVars,
                   trackerVars, senderVars>>

\* Lines 57-63 and 86-88: Popen raises; no process and no PID file.
StartRaises ==
    /\ ~is_server_running
    /\ pid_file' = NoFile
    /\ pid_source' = "none"
    /\ command' = [name |-> "start", success |-> FALSE, target |-> "none",
                   stale |-> FALSE]
    /\ UNCHANGED processes
    /\ UNCHANGED <<campaignVars, sinkVars, logVars, sourceVars, sheetVars,
                   trackerVars, senderVars>>

\* Lines 93-95: no PID file, nothing to stop.
StopNoFile ==
    /\ pid_file = NoFile
    /\ command' = [name |-> "stop", success |-> TRUE, target |-> "none",
                   stale |-> FALSE]
    /\ UNCHANGED <<pid_file, pid_source, processes>>
    /\ UNCHANGED <<campaignVars, sinkVars, logVars, sourceVars, sheetVars,
                   trackerVars, senderVars>>

\* Lines 97-113: the process under the recorded pid is killed with
\* SIGKILL, whichever it is, and the PID file removed; when there is no
\* such process the PID file is removed all the same.
Stop ==
    /\ pid_file # NoFile
    /\ processes' = [processes EXCEPT ![pid_file] = "free"]
    /\ pid_file' = NoFile
    /\ pid_source' = "none"
    /\ command' = [name |-> "stop", success |-> TRUE,
                   target |-> processes[pid_file], stale |-> LeftByFailedStart]
    /\ UNCHANGED <<campaignVars, sinkVars, logVars, sourceVars, sheetVars,
                   trackerVars, senderVars>>

\* The tracking server exits or is killed from outside the manager.
ServerExits(p) ==
    /\ processes[p] = "server"
    /\ processes' = [processes EXCEPT ![p] = "free"]
    /\ UNCHANGED <<pid_file, pid_source, command>>
    /\ UNCHANGED <<campaignVars, sinkVars, logVars, sourceVars, sheetVars,
                   trackerVars, senderVars>>

\* The operating system gives a free pid to a process that is not the
\* tracking server.
OtherSpawns(p) ==
    /\ processes[p] = "free"
    /\ processes' = [processes EXCEPT ![p] = "other"]
    /\ UNCHANGED <<pid_file, pid_source, command>>
    /\ UNCHANGED <<campaignVars, sinkVars, logVars, sourceVars, sheetVars,
                   trackerVars, senderVars>>

\* Such a process exits.
OtherExits(p) ==
    /\ processes[p] = "other"
    /\ processes' = [processes EXCEPT ![p] = "free"]
    /\ UNCHANGED <<pid_file, pid_source, command>>
    /\ UNCHANGED <<campaignVars, sinkVars, logVars, sourceVars, sheetVars,
                   trackerVars, senderVars>>

ManagerNext ==
    \/ StartUnavailable
    \/ StartAlreadyRunning
    \/ \E p \in Pids, alive \in BOOLEAN : Start(p, alive)
    \/ StartRaises
    \/ StopNoFile
    \/ Stop
    \/ \E p \in Pids : ServerExits(p)
    \/ \E p \in Pids : OtherSpawns(p)
    \/ \E p \in Pids : OtherExits(p)

ManagerSpec == Init /\ [][ManagerNext]_vars

\* At most one tracking server started by the manager is alive.
AtMostOneServer == Cardinality(Servers) <= 1

\* After a successful stop no server is alive and no PID file remains.
StoppedMeansGone ==
    command.name = "stop" /\ command.success => Servers = {} /\ pid_file = NoFile

\* No start and no stop has acted, through a PID file that a failed start
\* left, on a process that is not the tracking server.
NoStrangerHit == ~(command.stale /\ command.target = "other")

\* C38 as stated: at most one server of the manager is alive, a successful
\* stop leaves no server and no PID file, and no PID file left by a failed
\* start makes a later start or stop act on a process that is not the
\* tracking server.
C38_OneServerNoStalePid ==
    AtMostOneServer /\ StoppedMeansGone /\ NoStrangerHit

====
